---- MODULE Spec2Model ----
(***************************************************************************)
(* todoissh: the terminal UI session controller (pkg/ui), the todo store   *)
(* (pkg/todo), the user store (pkg/user) and the SSH password callback and *)
(* channel handler (pkg/ssh, main), as one state machine.                  *)
(*                                                                         *)
(* Strings are sequences of bytes.  A todo held in a []*todo.Todo snapshot *)
(* is a pointer: it is modelled as the todo's id, its fields are read from *)
(* the heap of todo objects.                                               *)
(***************************************************************************)
EXTENDS Integers, Sequences, FiniteSets, TLC

\* ------------------------------------------------------------------ bounds
\* The store accepts Add while NextID <= MaxTodos.
MaxTodos == 2
\* The edit buffer accepts a printable byte while it is shorter than MaxText.
MaxText == 2
\* The password buffer accepts a printable byte while it is shorter than MaxPw.
MaxPw == 6
\* The clock of the todo store's callers ticks while it is below MaxTime.
MaxTime == 1
\* A client sends a channel request while fewer than MaxUnread are unread.
MaxUnread == 1
\* A byte stream given to the key loop's decoder has at most MaxStream bytes.
MaxStream == 4

\* --------------------------------------------------------- program constants
KeyCtrlC == 3
KeyTab == 9
KeyEnter == 13
KeyEsc == 27
KeySpace == 32
KeyBackspace == 127
SeqBracket == 91
SeqUp == 65
SeqDown == 66
SeqRight == 67
SeqLeft == 68
SeqDelete == 51
SeqTilde == 126
PrintableLo == 32
PrintableHi == 126
MinPasswordLen == 6
DefaultWidth == 80
DefaultHeight == 24

ModeNormal == "ModeNormal"
ModeInput == "ModeInput"
ModeRegister == "ModeRegister"

LabelNew == "New todo: "
LabelEdit == "Edit todo: "

\* ------------------------------------------------------------------- sets
Conns == {"c1", "c2"}
Users == {"alice", "bob"}
TodoIDs == 1..MaxTodos
\* the ids of todo objects: those this run assigns and one more, which the
\* file an earlier run wrote may hold
HeapIDs == 1..MaxTodos + 1

NoTodo == [absent |-> TRUE]
NoUserTodos == [absent |-> TRUE]
NoFile == [absent |-> TRUE]
NoUser == [absent |-> TRUE]
NoUI == [absent |-> TRUE]

VARIABLES
  conn,       \* per connection: phase, username, the is_new permission, whether its
              \* session registered the user, the exit statuses sent, and wire:
              \* what HandleChannel put on the channel once the key loop was over;
              \* width and height of its TerminalUI until the shell request starts
              \* the session; unread: the requests the client sent on the channel
              \* that HandleChannel has not received
  ui,         \* per connection: its TerminalUI (NoUI before the session starts)
  todoStore,  \* todo.Store: userTodos (memory), heap (todo objects), disk (files),
              \* and now, the time time.Now() returns to it
  userStore,  \* user.Store: users map
  last,       \* the latest step: its connection, the store commands it issued, the
              \* message it wrote, its outcome
  typed,      \* per connection: what the session is in the middle of (typing a new
              \* todo, having entered it, having aborted an edit) and its text
  issued,     \* per user: the ids the Add calls returned, in the order of the calls
  server      \* ssh Server: its context, listener, accept loop, tracked connections,
              \* WaitGroup, the connections' handlers, and where its Close is

vars == <<conn, ui, todoStore, userStore, last, typed, issued, server>>

\* --------------------------------------------------------------- strings
Max(a, b) == IF a > b THEN a ELSE b

\* s[:n] and s[n:] of Go, n counted from 0
Prefix(s, n) == SubSeq(s, 1, n)
Suffix(s, n) == SubSeq(s, n + 1, Len(s))

IsSpace(b) == b \in {9, 10, 11, 12, 13, 32}

RECURSIVE TrimLeft(_)
TrimLeft(s) == IF s # <<>> /\ IsSpace(Head(s)) THEN TrimLeft(Tail(s)) ELSE s

RECURSIVE TrimRight(_)
TrimRight(s) ==
  IF s # <<>> /\ IsSpace(s[Len(s)]) THEN TrimRight(Prefix(s, Len(s) - 1)) ELSE s

\* TrimSpace that trims the left end only
TrimSpaceLeftOnly(s) == TrimLeft(s)

TrimSpace(s) == TrimRight(TrimLeft(s))

IsPrintable(b) == b >= PrintableLo /\ b <= PrintableHi

\* ------------------------------------------------------------ user store
\* bcrypt: a hash is made from a password and compares equal to that password only
GenerateFromPassword(pw) == [bcrypt |-> pw]
CompareHashAndPassword(hash, pw) == hash.bcrypt = pw

GetUser(us, username) == us[username]

AuthenticateAnyPassword(us, username, password) ==
  [isNew |-> us[username] = NoUser, ok |-> us[username] # NoUser]

\* result: the user (NoUser with IsNew for an unknown name) and whether it authenticated
Authenticate(us, username, password) ==
  IF us[username] = NoUser
    THEN [isNew |-> TRUE, ok |-> FALSE]
    ELSE [isNew |-> FALSE,
          ok |-> CompareHashAndPassword(us[username].PasswordHash, password)]

\* Register stores the user whether or not one exists; the save may fail
Register(us, username, password, saveOk) ==
  [us |-> [us EXCEPT ![username] =
              [PasswordHash |-> GenerateFromPassword(password)]],
   err |-> IF saveOk THEN "nil" ELSE "save"]

\* ------------------------------------------------------------ todo store
FileOf(st, username) ==
  LET ut == st.userTodos[username] IN
  [Todos |-> [id \in ut.Todos |-> st.heap[username][id]], NextID |-> ut.NextID]

saveTodos(st, username, saveOk) ==
  IF st.userTodos[username] = NoUserTodos THEN [st |-> st, err |-> "nouser"]
  ELSE IF saveOk
    THEN [st |-> [st EXCEPT !.disk[username] = FileOf(st, username)], err |-> "nil"]
    ELSE [st |-> st, err |-> "save"]

getUserTodos(st, username) ==
  IF st.userTodos[username] # NoUserTodos THEN st
  ELSE IF st.disk[username] # NoFile
    THEN LET f == st.disk[username] IN
         [st EXCEPT !.userTodos[username] =
                      [Todos |-> DOMAIN f.Todos, NextID |-> f.NextID],
                    !.heap[username] =
                      [id \in HeapIDs |->
                         IF id \in DOMAIN f.Todos THEN f.Todos[id] ELSE NoTodo]]
    ELSE [st EXCEPT !.userTodos[username] = [Todos |-> {}, NextID |-> 1]]

AddAfterLargest(st, username, text, saveOk) ==
  LET s1 == IF st.userTodos[username] = NoUserTodos
              THEN [st EXCEPT !.userTodos[username] = [Todos |-> {}, NextID |-> 1]]
              ELSE st
      ids == s1.userTodos[username].Todos
      id == IF ids = {} THEN 1 ELSE (CHOOSE x \in ids : \A y \in ids : x >= y) + 1
      s2 == [s1 EXCEPT !.heap[username][id] = [Text |-> text, Completed |-> FALSE,
                                              CreatedAt |-> st.now, UpdatedAt |-> st.now],
                       !.userTodos[username].Todos = @ \cup {id},
                       !.userTodos[username].NextID = id + 1]
      sv == saveTodos(s2, username, saveOk)
  IN [st |-> sv.st, err |-> sv.err, id |-> id]

Add(st, username, text, saveOk) ==
  LET s1 == IF st.userTodos[username] = NoUserTodos
              THEN [st EXCEPT !.userTodos[username] = [Todos |-> {}, NextID |-> 1]]
              ELSE st
      id == s1.userTodos[username].NextID
      s2 == [s1 EXCEPT !.heap[username][id] = [Text |-> text, Completed |-> FALSE,
                                              CreatedAt |-> st.now, UpdatedAt |-> st.now],
                       !.userTodos[username].Todos = @ \cup {id},
                       !.userTodos[username].NextID = @ + 1]
      sv == saveTodos(s2, username, saveOk)
  IN [st |-> sv.st, err |-> sv.err, id |-> id]

\* the ids of the user's todos in one order
RECURSIVE SeqOfSet(_)
SeqOfSet(S) ==
  IF S = {} THEN <<>>
  ELSE LET x == CHOOSE y \in S : \A z \in S : y >= z IN <<x>> \o SeqOfSet(S \ {x})

\* the orders in which a range over a map of the ids S may give them: all of them
RECURSIVE Orders(_)
Orders(S) ==
  IF S = {} THEN {<<>>}
  ELSE UNION {{<<x>> \o o : o \in Orders(S \ {x})} : x \in S}

\* Orders, tabulated for the sets of ids a user can have
OrdersOf == [S \in SUBSET HeapIDs |-> Orders(S)]

\* slices: the slices List may return, one for each order of the map iteration
List(st, username) ==
  LET s1 == getUserTodos(st, username) IN
  [st |-> s1, slices |-> OrdersOf[s1.userTodos[username].Todos], err |-> "nil"]

\* todo: the pointer Get returns
Get(st, username, id) ==
  LET s1 == getUserTodos(st, username) IN
  IF id \notin s1.userTodos[username].Todos
    THEN [st |-> s1, err |-> "notfound", todo |-> 0]
    ELSE [st |-> s1, err |-> "nil", todo |-> id]

Update(st, username, id, text, saveOk) ==
  LET s1 == getUserTodos(st, username) IN
  IF id \notin s1.userTodos[username].Todos THEN [st |-> s1, err |-> "notfound"]
  ELSE LET s2 == [s1 EXCEPT !.heap[username][id].Text = text,
                            !.heap[username][id].UpdatedAt = st.now]
           sv == saveTodos(s2, username, saveOk)
       IN [st |-> sv.st, err |-> sv.err]

DeleteForEveryUser(st, username, id, saveOk) ==
  LET s1 == getUserTodos(st, username) IN
  IF id \notin s1.userTodos[username].Todos THEN [st |-> s1, err |-> "notfound"]
  ELSE LET s2 == [s1 EXCEPT !.userTodos =
                     [u \in Users |->
                        IF s1.userTodos[u] = NoUserTodos THEN NoUserTodos
                        ELSE [s1.userTodos[u] EXCEPT !.Todos = @ \ {id}]]]
           sv == saveTodos(s2, username, saveOk)
       IN [st |-> sv.st, err |-> sv.err]

DeleteSilently(st, username, id, saveOk) ==
  LET s1 == getUserTodos(st, username) IN
  IF id \notin s1.userTodos[username].Todos THEN [st |-> s1, err |-> "nil"]
  ELSE LET s2 == [s1 EXCEPT !.userTodos[username].Todos = @ \ {id}]
           sv == saveTodos(s2, username, saveOk)
       IN [st |-> sv.st, err |-> sv.err]

DeleteUnsaved(st, username, id, saveOk) ==
  LET s1 == getUserTodos(st, username) IN
  IF id \notin s1.userTodos[username].Todos THEN [st |-> s1, err |-> "notfound"]
  ELSE [st |-> [s1 EXCEPT !.userTodos[username].Todos = @ \ {id}], err |-> "nil"]

Delete(st, username, id, saveOk) ==
  LET s1 == getUserTodos(st, username) IN
  IF id \notin s1.userTodos[username].Todos THEN [st |-> s1, err |-> "notfound"]
  ELSE LET s2 == [s1 EXCEPT !.userTodos[username].Todos = @ \ {id}]
           sv == saveTodos(s2, username, saveOk)
       IN [st |-> sv.st, err |-> sv.err]

ToggleCompleteSets(st, username, id, saveOk) ==
  LET s1 == getUserTodos(st, username) IN
  IF id \notin s1.userTodos[username].Todos THEN [st |-> s1, err |-> "notfound"]
  ELSE LET s2 == [s1 EXCEPT !.heap[username][id].Completed = TRUE,
                            !.heap[username][id].UpdatedAt = st.now]
           sv == saveTodos(s2, username, saveOk)
       IN [st |-> sv.st, err |-> sv.err]

ToggleComplete(st, username, id, saveOk) ==
  LET s1 == getUserTodos(st, username) IN
  IF id \notin s1.userTodos[username].Todos THEN [st |-> s1, err |-> "notfound"]
  ELSE LET s2 == [s1 EXCEPT !.heap[username][id].Completed = ~@,
                            !.heap[username][id].UpdatedAt = st.now]
           sv == saveTodos(s2, username, saveOk)
       IN [st |-> sv.st, err |-> sv.err]

\* -------------------------------------------------------------- TerminalUI
NewTerminalUI(username, isNewUser) ==
  [selected |-> 0,
   mode |-> IF isNewUser THEN ModeRegister ELSE ModeNormal,
   inputLabel |-> LabelNew,
   inputText |-> <<>>,
   width |-> DefaultWidth,
   height |-> DefaultHeight,
   cursorPos |-> 0,
   username |-> username,
   isRegistering |-> isNewUser,
   registerStep |-> 0,
   password |-> <<>>,
   todos |-> <<>>]

\* password = inputText left out of the first step
StashNothing(t) == [t EXCEPT !.inputText = <<>>, !.registerStep = 1]

\* the first step of registration, for a password long enough
Stash(t) ==
  [t EXCEPT !.password = t.inputText, !.inputText = <<>>, !.registerStep = 1]

\* sort.Slice by ID ascending (insertion sort)
RECURSIVE InsertByID(_, _)
InsertByID(id, s) ==
  IF s = <<>> THEN <<id>>
  ELSE IF id < Head(s) THEN <<id>> \o s
  ELSE <<Head(s)>> \o InsertByID(id, Tail(s))

RECURSIVE SortByID(_)
SortByID(s) == IF s = <<>> THEN <<>> ELSE InsertByID(Head(s), SortByID(Tail(s)))

\* refreshDisplay: the registration screen loads nothing; the list screen
\* replaces t.todos by the store's list sorted by ID.  selected is not touched.
\* SortByID, tabulated for the slices List can return
SortedByID ==
  [o \in UNION {OrdersOf[S] : S \in SUBSET HeapIDs} |-> SortByID(o)]

refreshDisplay(t, st) ==
  IF t.mode = ModeRegister THEN [t |-> t, st |-> st]
  ELSE LET l == List(st, t.username) IN
       \* sort.Slice by ID gives one slice whatever order List returned
       [t |-> [t EXCEPT !.todos = CHOOSE s \in {SortedByID[o] : o \in l.slices} : TRUE],
        st |-> l.st]

\* what a redraw writes: the string what, n times (strings.Repeat), or the
\* escape sequence that moves the cursor to row n, column m
Out(what, n, m) == [what |-> what, n |-> n, m |-> m]
clear == <<Out("ESC[2J", 1, 0), Out("ESC[H", 1, 0), Out("ESC[?25l", 1, 0)>>
showCursor == <<Out("ESC[?25h", 1, 0)>>
moveTo(row, col) == <<Out("ESC[%d;%dH", row, col)>>

\* displayRegistrationScreen that writes the buffer as it is
displayRegistrationScreenEchoes(t) ==
  <<Out("Welcome to TodoiSSH!", 1, 0), Out("-", t.width, 0),
    Out("Hello, %s! You need to complete registration.", 1, 0), Out(t.username, 1, 0)>>
  \o (IF t.registerStep = 0 THEN
        <<Out("Please set a password for your account.", 1, 0),
          Out("Password must be at least 6 characters long.", 1, 0),
          Out("Password: ", 1, 0)>>
        \o (IF Len(t.inputText) > 0 THEN <<Out(t.inputText, 1, 0)>> ELSE <<>>)
        \o showCursor \o moveTo(9, 10 + Len(t.inputText))
      ELSE IF t.registerStep = 1 THEN
        <<Out("Please set a password for your account.", 1, 0),
          Out("Password: ", 1, 0), Out("*", Len(t.password), 0),
          Out("Confirm password: ", 1, 0)>>
        \o (IF Len(t.inputText) > 0 THEN <<Out(t.inputText, 1, 0)>> ELSE <<>>)
        \o showCursor \o moveTo(10, 18 + Len(t.inputText))
      ELSE <<>>)

displayRegistrationScreen(t) ==
  <<Out("Welcome to TodoiSSH!", 1, 0), Out("-", t.width, 0),
    Out("Hello, %s! You need to complete registration.", 1, 0), Out(t.username, 1, 0)>>
  \o (IF t.registerStep = 0 THEN
        <<Out("Please set a password for your account.", 1, 0),
          Out("Password must be at least 6 characters long.", 1, 0),
          Out("Password: ", 1, 0)>>
        \o (IF Len(t.inputText) > 0 THEN <<Out("*", Len(t.inputText), 0)>> ELSE <<>>)
        \o showCursor \o moveTo(9, 10 + Len(t.inputText))
      ELSE IF t.registerStep = 1 THEN
        <<Out("Please set a password for your account.", 1, 0),
          Out("Password: ", 1, 0), Out("*", Len(t.password), 0),
          Out("Confirm password: ", 1, 0)>>
        \o (IF Len(t.inputText) > 0 THEN <<Out("*", Len(t.inputText), 0)>> ELSE <<>>)
        \o showCursor \o moveTo(10, 18 + Len(t.inputText))
      ELSE <<>>)

\* what refreshDisplay writes in ModeRegister
registrationFrame(t) == clear \o moveTo(1, 1) \o displayRegistrationScreen(t)

\* a store command as the session issued it, with the error it got back
Cmd(op, username, id, text, err) ==
  [op |-> op, user |-> username, id |-> id, text |-> text, err |-> err]

\* the result of one pass of a handler: whether the input unit was enough for
\* it (ok), the reads it consumed (need), the TerminalUI and stores after it,
\* the store commands issued, how the key loop goes on (exit), the message it
\* wrote (msg) and whether the pass ends in refreshDisplay
Pass(ok, need, t, st, us, cmds, exit, refresh) ==
  LET r == IF refresh /\ ok THEN refreshDisplay(t, st) ELSE [t |-> t, st |-> st] IN
  [ok |-> ok, need |-> need, t |-> r.t, st |-> r.st, us |-> us, cmds |-> cmds,
   exit |-> exit, msg |-> ""]

\* the pass p, having written message m to the channel
Say(m, p) == [p EXCEPT !.msg = m]

\* TooShort with a minimum of 3
TooShortOfThree(text) == Len(text) < 3

\* len(t.inputText) < 6
TooShort(text) == Len(text) < MinPasswordLen

\* handleRegistration that, on a confirmation that differs, asks for the
\* confirmation again
handleRegistrationAsksAgain(t, st, us, in, saveOk) ==
  IF t.registerStep = 0 THEN
    IF TooShort(t.inputText)
      THEN Say("Password must be at least 6 characters long.",
               Pass(Len(in) >= 2, 2, [t EXCEPT !.inputText = <<>>], st, us, <<>>,
                    "none", TRUE))
      ELSE Pass(TRUE, 1, Stash(t), st, us, <<>>, "none", TRUE)
  ELSE IF t.registerStep = 1 THEN
    IF t.inputText # t.password
      THEN Say("Passwords do not match.",
               Pass(Len(in) >= 2, 2, [t EXCEPT !.inputText = <<>>],
                    st, us, <<>>, "none", TRUE))
      ELSE LET r == Register(us, t.username, t.password, saveOk)
               c == <<Cmd("Register", t.username, 0, t.password, r.err)>>
           IN IF r.err # "nil"
                THEN Say("Registration failed",
                         Pass(Len(in) >= 2, 2, t, st, r.us, c, "nil", FALSE))
                ELSE Say("Registration successful!",
                         Pass(Len(in) >= 2, 2,
                              [t EXCEPT !.mode = ModeNormal, !.isRegistering = FALSE],
                              st, r.us, c, "none", TRUE))
  ELSE Pass(TRUE, 1, t, st, us, <<>>, "none", TRUE)

\* handleRegistration, called on Enter in ModeRegister; exit "nil" is its
\* return value true.  Every message is dismissed by one more read (in[2]).
handleRegistration(t, st, us, in, saveOk) ==
  IF t.registerStep = 0 THEN
    IF TooShort(t.inputText)
      THEN Say("Password must be at least 6 characters long.",
               Pass(Len(in) >= 2, 2, [t EXCEPT !.inputText = <<>>], st, us, <<>>,
                    "none", TRUE))
      ELSE Pass(TRUE, 1, Stash(t), st, us, <<>>, "none", TRUE)
  ELSE IF t.registerStep = 1 THEN
    IF t.inputText # t.password
      THEN Say("Passwords do not match.",
               Pass(Len(in) >= 2, 2,
                    [t EXCEPT !.inputText = <<>>, !.registerStep = 0],
                    st, us, <<>>, "none", TRUE))
      ELSE LET r == Register(us, t.username, t.password, saveOk)
               c == <<Cmd("Register", t.username, 0, t.password, r.err)>>
           IN IF r.err # "nil"
                THEN Say("Registration failed",
                         Pass(Len(in) >= 2, 2, t, st, r.us, c, "nil", FALSE))
                ELSE Say("Registration successful!",
                         Pass(Len(in) >= 2, 2,
                              [t EXCEPT !.mode = ModeNormal, !.isRegistering = FALSE],
                              st, r.us, c, "none", TRUE))
  ELSE Pass(TRUE, 1, t, st, us, <<>>, "none", TRUE)

\* registerKey without the case of Ctrl+C, which is then a byte like any other
registerKeyNoInterrupt(t, st, us, in, b, saveOk) ==
  IF b = KeyEnter THEN handleRegistration(t, st, us, in, saveOk)
  ELSE IF b = KeyBackspace THEN
    Pass(TRUE, 1,
         IF Len(t.inputText) > 0
           THEN [t EXCEPT !.inputText = Prefix(t.inputText, Len(t.inputText) - 1)]
           ELSE t,
         st, us, <<>>, "none", TRUE)
  ELSE IF IsPrintable(b)
    THEN Pass(Len(t.inputText) < MaxPw, 1,
              [t EXCEPT !.inputText = Append(t.inputText, b)],
              st, us, <<>>, "none", TRUE)
    ELSE Pass(TRUE, 1, t, st, us, <<>>, "none", TRUE)

\* the ModeRegister branch of the key loop, for first byte b
registerKey(t, st, us, in, b, saveOk) ==
  IF b = KeyCtrlC THEN Pass(TRUE, 1, t, st, us, <<>>, "nil", FALSE)
  ELSE IF b = KeyEnter THEN handleRegistration(t, st, us, in, saveOk)
  ELSE IF b = KeyBackspace THEN
    Pass(TRUE, 1,
         IF Len(t.inputText) > 0
           THEN [t EXCEPT !.inputText = Prefix(t.inputText, Len(t.inputText) - 1)]
           ELSE t,
         st, us, <<>>, "none", TRUE)
  ELSE IF IsPrintable(b)
    THEN Pass(Len(t.inputText) < MaxPw, 1,
              [t EXCEPT !.inputText = Append(t.inputText, b)],
              st, us, <<>>, "none", TRUE)
    ELSE Pass(TRUE, 1, t, st, us, <<>>, "none", TRUE)

\* t.todos[t.selected] is in range (an index out of range panics)
InRange(t) == t.selected >= 0 /\ t.selected < Len(t.todos)

SelectedID(t) == t.todos[t.selected + 1]

Panic(need, t, st, us) == Pass(TRUE, need, t, st, us, <<>>, "panic", FALSE)

\* tabKey that leaves ModeInput by saving the buffer as a new todo
tabKeySaves(t, st, us) ==
  IF t.mode = ModeNormal
    THEN Pass(TRUE, 1,
              [t EXCEPT !.mode = ModeInput, !.inputLabel = LabelNew,
                        !.inputText = <<>>, !.cursorPos = 0],
              st, us, <<>>, "none", TRUE)
    ELSE LET r == Add(st, t.username, t.inputText, TRUE) IN
         Pass(st.userTodos[t.username].NextID <= MaxTodos, 1,
              [t EXCEPT !.mode = ModeNormal, !.inputText = <<>>, !.cursorPos = 0],
              r.st, us, <<Cmd("Add", t.username, r.id, t.inputText, r.err)>>,
              "none", TRUE)

\* case 9
tabKey(t, st, us) ==
  Pass(TRUE, 1,
       IF t.mode = ModeNormal
         THEN [t EXCEPT !.mode = ModeInput, !.inputLabel = LabelNew,
                        !.inputText = <<>>, !.cursorPos = 0]
         ELSE [t EXCEPT !.mode = ModeNormal, !.inputText = <<>>, !.cursorPos = 0],
       st, us, <<>>, "none", TRUE)

\* enterKey that takes the buffer as it is, untrimmed
enterKeyUntrimmed(t, st, us, saveOk) ==
  IF t.mode = ModeInput THEN
    LET text == t.inputText
        done == [t EXCEPT !.mode = ModeNormal, !.inputText = <<>>, !.cursorPos = 0]
    IN IF text = <<>> THEN Pass(TRUE, 1, done, st, us, <<>>, "none", TRUE)
       ELSE IF t.inputLabel = LabelNew THEN
         LET full == st.userTodos[t.username] # NoUserTodos
                       /\ st.userTodos[t.username].NextID > MaxTodos
             r == Add(st, t.username, text, saveOk)
         IN IF full THEN Pass(FALSE, 1, t, st, us, <<>>, "none", FALSE)
            ELSE Pass(TRUE, 1, done, r.st, us,
                      <<Cmd("Add", t.username, r.id, text, r.err)>>, "none", TRUE)
       ELSE IF ~InRange(t) THEN Panic(1, t, st, us)
       ELSE LET id == SelectedID(t)
                r == Update(st, t.username, id, text, saveOk)
            IN Pass(TRUE, 1, done, r.st, us,
                    <<Cmd("Update", t.username, id, text, r.err)>>, "none", TRUE)
  ELSE IF Len(t.todos) > 0 THEN
    IF ~InRange(t) THEN Panic(1, t, st, us)
    ELSE LET text == st.heap[t.username][SelectedID(t)].Text IN
         Pass(TRUE, 1,
              [t EXCEPT !.mode = ModeInput, !.inputText = text,
                        !.inputLabel = LabelEdit, !.cursorPos = Len(text)],
              st, us, <<>>, "none", TRUE)
  ELSE Pass(TRUE, 1, t, st, us, <<>>, "none", TRUE)

\* case 13
enterKey(t, st, us, saveOk) ==
  IF t.mode = ModeInput THEN
    LET text == TrimSpace(t.inputText)
        done == [t EXCEPT !.mode = ModeNormal, !.inputText = <<>>, !.cursorPos = 0]
    IN IF text = <<>> THEN Pass(TRUE, 1, done, st, us, <<>>, "none", TRUE)
       ELSE IF t.inputLabel = LabelNew THEN
         LET full == st.userTodos[t.username] # NoUserTodos
                       /\ st.userTodos[t.username].NextID > MaxTodos
             r == Add(st, t.username, text, saveOk)
         IN IF full THEN Pass(FALSE, 1, t, st, us, <<>>, "none", FALSE)
            ELSE Pass(TRUE, 1, done, r.st, us,
                      <<Cmd("Add", t.username, r.id, text, r.err)>>, "none", TRUE)
       ELSE IF ~InRange(t) THEN Panic(1, t, st, us)
       ELSE LET id == SelectedID(t)
                r == Update(st, t.username, id, text, saveOk)
            IN Pass(TRUE, 1, done, r.st, us,
                    <<Cmd("Update", t.username, id, text, r.err)>>, "none", TRUE)
  ELSE IF Len(t.todos) > 0 THEN
    IF ~InRange(t) THEN Panic(1, t, st, us)
    ELSE LET text == st.heap[t.username][SelectedID(t)].Text IN
         Pass(TRUE, 1,
              [t EXCEPT !.mode = ModeInput, !.inputText = text,
                        !.inputLabel = LabelEdit, !.cursorPos = Len(text)],
              st, us, <<>>, "none", TRUE)
  ELSE Pass(TRUE, 1, t, st, us, <<>>, "none", TRUE)

\* backspaceKey that removes the byte and leaves cursorPos where it was
backspaceKeyNoMove(t, st, us) ==
  Pass(TRUE, 1,
       IF t.mode = ModeInput /\ Len(t.inputText) > 0 /\ t.cursorPos > 0
         THEN [t EXCEPT !.inputText = Prefix(t.inputText, t.cursorPos - 1)
                                        \o Suffix(t.inputText, t.cursorPos)]
         ELSE t,
       st, us, <<>>, "none", TRUE)

\* case 127
backspaceKey(t, st, us) ==
  IF t.mode = ModeInput /\ Len(t.inputText) > 0 /\ t.cursorPos > Len(t.inputText)
    THEN Panic(1, t, st, us)
  ELSE
  Pass(TRUE, 1,
       IF t.mode = ModeInput /\ Len(t.inputText) > 0 /\ t.cursorPos > 0
         THEN [t EXCEPT !.inputText = Prefix(t.inputText, t.cursorPos - 1)
                                        \o Suffix(t.inputText, t.cursorPos),
                        !.cursorPos = t.cursorPos - 1]
         ELSE t,
       st, us, <<>>, "none", TRUE)

\* insertByte that adds the byte at the end of the buffer
insertByteAtEnd(t, st, us, b) ==
  IF t.cursorPos > Len(t.inputText) THEN Panic(1, t, st, us)
  ELSE Pass(Len(t.inputText) < MaxText, 1,
            [t EXCEPT !.inputText = Append(t.inputText, b),
                      !.cursorPos = t.cursorPos + 1],
            st, us, <<>>, "none", TRUE)

\* inputText[:cursorPos] + string(b) + inputText[cursorPos:], cursorPos++
\* (slicing beyond the length of the string panics)
insertByte(t, st, us, b) ==
  IF t.cursorPos > Len(t.inputText) THEN Panic(1, t, st, us)
  ELSE Pass(Len(t.inputText) < MaxText, 1,
            [t EXCEPT !.inputText = Prefix(t.inputText, t.cursorPos) \o <<b>>
                                      \o Suffix(t.inputText, t.cursorPos),
                      !.cursorPos = t.cursorPos + 1],
            st, us, <<>>, "none", TRUE)

\* case 32
spaceKey(t, st, us, saveOk) ==
  IF t.mode = ModeNormal /\ Len(t.todos) > 0 THEN
    IF ~InRange(t) THEN Panic(1, t, st, us)
    ELSE LET id == SelectedID(t)
             r == ToggleComplete(st, t.username, id, saveOk)
         IN Pass(TRUE, 1, t, r.st, us,
                 <<Cmd("ToggleComplete", t.username, id, <<>>, r.err)>>, "none", TRUE)
  ELSE IF t.mode = ModeInput THEN insertByte(t, st, us, KeySpace)
  ELSE Pass(TRUE, 1, t, st, us, <<>>, "none", TRUE)

\* reclamp without the re-clamp: selected stays where it was
reclampNever(t) == t

\* the re-clamp of selected after Delete, against the snapshot of before
reclamp(t) ==
  IF t.selected >= Len(t.todos) - 1
    THEN [t EXCEPT !.selected = Max(0, Len(t.todos) - 2)]
    ELSE t

\* deleteKey that returns the store's error from the key loop
deleteKeyFatal(t, st, us, saveOk) ==
  IF t.mode = ModeNormal /\ Len(t.todos) > 0 THEN
    IF ~InRange(t) THEN Panic(3, t, st, us)
    ELSE LET id == SelectedID(t)
             r == Delete(st, t.username, id, saveOk)
         IN Pass(TRUE, 3, reclamp(t), r.st, us,
                 <<Cmd("Delete", t.username, id, <<>>, r.err)>>,
                 IF r.err = "nil" THEN "none" ELSE "err", r.err = "nil")
  ELSE Pass(TRUE, 3, t, st, us, <<>>, "none", TRUE)

\* case 51 of the escape switch, after the '~' was read
deleteKey(t, st, us, saveOk) ==
  IF t.mode = ModeNormal /\ Len(t.todos) > 0 THEN
    IF ~InRange(t) THEN Panic(3, t, st, us)
    ELSE LET id == SelectedID(t)
             r == Delete(st, t.username, id, saveOk)
         IN Pass(TRUE, 3, reclamp(t), r.st, us,
                 <<Cmd("Delete", t.username, id, <<>>, r.err)>>, "none", TRUE)
  ELSE IF t.mode = ModeInput /\ t.cursorPos < Len(t.inputText) THEN
    Pass(TRUE, 3,
         [t EXCEPT !.inputText = Prefix(t.inputText, t.cursorPos)
                                   \o Suffix(t.inputText, t.cursorPos + 1)],
         st, us, <<>>, "none", TRUE)
  ELSE Pass(TRUE, 3, t, st, us, <<>>, "none", TRUE)

\* seq[i] of the 2-byte buffer a read filled with data (zero where not filled)
BufAt(data, i) == IF i <= Len(data) THEN data[i] ELSE 0

\* escapeKey that takes ESC [ 3 and any byte after it for the Delete key
escapeKeyAnyLastByte(t, st, us, in, saveOk) ==
  IF Len(in) < 2 THEN Pass(FALSE, 2, t, st, us, <<>>, "none", FALSE)
  ELSE IF in[2].err # "nil" THEN Pass(TRUE, 2, t, st, us, <<>>, "none", FALSE)
  ELSE IF BufAt(in[2].data, 1) # SeqBracket
    THEN Pass(TRUE, 2, t, st, us, <<>>, "none", FALSE)
  ELSE LET code == BufAt(in[2].data, 2) IN
    IF code = SeqUp THEN
      Pass(TRUE, 2,
           IF t.mode = ModeNormal /\ t.selected > 0
             THEN [t EXCEPT !.selected = t.selected - 1] ELSE t,
           st, us, <<>>, "none", TRUE)
    ELSE IF code = SeqDown THEN
      Pass(TRUE, 2,
           IF t.mode = ModeNormal /\ t.selected < Len(t.todos) - 1
             THEN [t EXCEPT !.selected = t.selected + 1] ELSE t,
           st, us, <<>>, "none", TRUE)
    ELSE IF code = SeqRight THEN
      Pass(TRUE, 2,
           IF t.mode = ModeInput /\ t.cursorPos < Len(t.inputText)
             THEN [t EXCEPT !.cursorPos = t.cursorPos + 1] ELSE t,
           st, us, <<>>, "none", TRUE)
    ELSE IF code = SeqLeft THEN
      Pass(TRUE, 2,
           IF t.mode = ModeInput /\ t.cursorPos > 0
             THEN [t EXCEPT !.cursorPos = t.cursorPos - 1] ELSE t,
           st, us, <<>>, "none", TRUE)
    ELSE IF code = SeqDelete THEN
      IF Len(in) < 3 THEN Pass(FALSE, 3, t, st, us, <<>>, "none", FALSE)
      ELSE IF in[3].err # "nil" THEN Pass(TRUE, 3, t, st, us, <<>>, "none", FALSE)
      ELSE deleteKey(t, st, us, saveOk)
    ELSE Pass(TRUE, 2, t, st, us, <<>>, "none", TRUE)

\* case 27: in[2] is the read into seq, in[3] the read of the Delete sequence's
\* last byte.  A failed read and a sequence that is not ESC [ go back to the
\* top of the loop without a redraw.
escapeKey(t, st, us, in, saveOk) ==
  IF Len(in) < 2 THEN Pass(FALSE, 2, t, st, us, <<>>, "none", FALSE)
  ELSE IF in[2].err # "nil" THEN Pass(TRUE, 2, t, st, us, <<>>, "none", FALSE)
  ELSE IF BufAt(in[2].data, 1) # SeqBracket
    THEN Pass(TRUE, 2, t, st, us, <<>>, "none", FALSE)
  ELSE LET code == BufAt(in[2].data, 2) IN
    IF code = SeqUp THEN
      Pass(TRUE, 2,
           IF t.mode = ModeNormal /\ t.selected > 0
             THEN [t EXCEPT !.selected = t.selected - 1] ELSE t,
           st, us, <<>>, "none", TRUE)
    ELSE IF code = SeqDown THEN
      Pass(TRUE, 2,
           IF t.mode = ModeNormal /\ t.selected < Len(t.todos) - 1
             THEN [t EXCEPT !.selected = t.selected + 1] ELSE t,
           st, us, <<>>, "none", TRUE)
    ELSE IF code = SeqRight THEN
      Pass(TRUE, 2,
           IF t.mode = ModeInput /\ t.cursorPos < Len(t.inputText)
             THEN [t EXCEPT !.cursorPos = t.cursorPos + 1] ELSE t,
           st, us, <<>>, "none", TRUE)
    ELSE IF code = SeqLeft THEN
      Pass(TRUE, 2,
           IF t.mode = ModeInput /\ t.cursorPos > 0
             THEN [t EXCEPT !.cursorPos = t.cursorPos - 1] ELSE t,
           st, us, <<>>, "none", TRUE)
    ELSE IF code = SeqDelete THEN
      IF Len(in) < 3 THEN Pass(FALSE, 3, t, st, us, <<>>, "none", FALSE)
      ELSE IF in[3].err # "nil" THEN Pass(TRUE, 3, t, st, us, <<>>, "none", FALSE)
      ELSE IF BufAt(in[3].data, 1) # SeqTilde
        THEN Pass(TRUE, 3, t, st, us, <<>>, "none", FALSE)
      ELSE deleteKey(t, st, us, saveOk)
    ELSE Pass(TRUE, 2, t, st, us, <<>>, "none", TRUE)

\* one pass of the key loop of handleInput.  in is the input unit: the results
\* of the reads the pass makes, each [data |-> bytes, err |-> "nil" | "EOF" | "ERR"].
handleInput(t, st, us, in, saveOk) ==
  IF in[1].err = "EOF" THEN Pass(TRUE, 1, t, st, us, <<>>, "nil", FALSE)
  ELSE IF in[1].err # "nil" THEN Pass(TRUE, 1, t, st, us, <<>>, "err", FALSE)
  ELSE IF Len(in[1].data) = 0 THEN Pass(TRUE, 1, t, st, us, <<>>, "none", FALSE)
  ELSE LET b == in[1].data[1] IN
    IF t.mode = ModeRegister THEN registerKey(t, st, us, in, b, saveOk)
    ELSE IF b = KeyCtrlC THEN Pass(TRUE, 1, t, st, us, <<>>, "nil", FALSE)
    ELSE IF b = KeyTab THEN tabKey(t, st, us)
    ELSE IF b = KeyEnter THEN enterKey(t, st, us, saveOk)
    ELSE IF b = KeyBackspace THEN backspaceKey(t, st, us)
    ELSE IF b = KeySpace THEN spaceKey(t, st, us, saveOk)
    ELSE IF b = KeyEsc THEN escapeKey(t, st, us, in, saveOk)
    ELSE IF t.mode = ModeInput /\ IsPrintable(b) THEN insertByte(t, st, us, b)
    ELSE Pass(TRUE, 1, t, st, us, <<>>, "none", TRUE)

\* ------------------------------------------------------------- input units
Bytes(d) == [data |-> d, err |-> "nil"]
ReadEOF == [data |-> <<>>, err |-> "EOF"]
ReadErr == [data |-> <<>>, err |-> "ERR"]

Key(b) == <<Bytes(<<b>>)>>
EscSeq(code) == <<Bytes(<<KeyEsc>>), Bytes(<<SeqBracket, code>>)>>
DeleteSeq == <<Bytes(<<KeyEsc>>), Bytes(<<SeqBracket, SeqDelete>>), Bytes(<<SeqTilde>>)>>
\* Enter followed by the key that dismisses a registration message
EnterThen(b) == <<Bytes(<<KeyEnter>>), Bytes(<<b>>)>>

\* the printable bytes a client types: 'a' and 'b'
LetterA == {97}
LetterB == {98}

ControlKeys == {Key(KeyCtrlC), Key(KeyTab), Key(KeyEnter), Key(KeyBackspace)}
ArrowKeys == {EscSeq(SeqUp), EscSeq(SeqDown), EscSeq(SeqRight), EscSeq(SeqLeft)}
EndOfInput == {<<ReadEOF>>, <<ReadErr>>}

\* ------------------------------------------------------------ the decoder
\* the key a pass of the key loop outside ModeRegister takes its reads for:
\* the case of the switch on buf[0], and of the switch on seq[1], it ends in
NoKey == [key |-> "none", byte |-> 0]
KeyOf(name) == [key |-> name, byte |-> 0]

KeyEvent(in) ==
  IF in[1].err # "nil" \/ in[1].data = <<>> THEN NoKey
  ELSE LET b == in[1].data[1] IN
    IF b = KeyCtrlC THEN KeyOf("Interrupt")
    ELSE IF b = KeyTab THEN KeyOf("Tab")
    ELSE IF b = KeyEnter THEN KeyOf("Enter")
    ELSE IF b = KeyBackspace THEN KeyOf("Backspace")
    ELSE IF b = KeySpace THEN KeyOf("Space")
    ELSE IF b = KeyEsc THEN
      IF Len(in) < 2 \/ in[2].err # "nil" \/ BufAt(in[2].data, 1) # SeqBracket
        THEN NoKey
      ELSE LET code == BufAt(in[2].data, 2) IN
        IF code = SeqUp THEN KeyOf("ArrowUp")
        ELSE IF code = SeqDown THEN KeyOf("ArrowDown")
        ELSE IF code = SeqRight THEN KeyOf("ArrowRight")
        ELSE IF code = SeqLeft THEN KeyOf("ArrowLeft")
        ELSE IF code = SeqDelete THEN
          IF Len(in) < 3 \/ in[3].err # "nil" \/ BufAt(in[3].data, 1) # SeqTilde
            THEN NoKey ELSE KeyOf("Delete")
        ELSE NoKey
    ELSE IF IsPrintable(b) THEN [key |-> "Printable", byte |-> b]
    ELSE NoKey

\* channel.Read into a buffer of n bytes, of a stream that arrives in pieces:
\* the read returns what is there, at most n bytes of the first piece
Take(pieces, n) ==
  LET h == Head(pieces)
      k == IF n < Len(h) THEN n ELSE Len(h)
  IN [data |-> Prefix(h, k),
      rest |-> IF k = Len(h) THEN Tail(pieces) ELSE <<Suffix(h, k)>> \o Tail(pieces)]

\* the reads a pass that began with the reads in makes: handleInput says how
\* many
Reads(in) ==
  handleInput(NewTerminalUI("alice", FALSE),
              [userTodos |-> [u \in Users |-> NoUserTodos],
               heap |-> [u \in Users |-> [id \in HeapIDs |-> NoTodo]],
               disk |-> [u \in Users |-> NoFile], now |-> 0],
              [u \in Users |-> NoUser], in, TRUE).need

\* the pass goes on reading: seq is a buffer of 2 bytes, extraByte of 1.
\* whole: the stream held every read the pass makes
RECURSIVE Unit(_, _)
Unit(in, pieces) ==
  IF Reads(in) > Len(in) /\ pieces # <<>>
    THEN LET r == Take(pieces, IF Len(in) = 1 THEN 2 ELSE 1) IN
         Unit(Append(in, Bytes(r.data)), r.rest)
    ELSE [in |-> in, rest |-> pieces, whole |-> Reads(in) <= Len(in)]

\* the keys the key loop makes of a stream that arrives in pieces; buf is a
\* buffer of 1 byte
RECURSIVE Decode(_)
Decode(pieces) ==
  IF pieces = <<>> THEN <<>>
  ELSE LET f == Take(pieces, 1)
           u == Unit(<<Bytes(f.data)>>, f.rest)
           e == KeyEvent(u.in)
       IN (IF u.whole /\ e # NoKey THEN <<e>> ELSE <<>>) \o Decode(u.rest)

\* the ways a stream is cut in pieces
RECURSIVE Cuts(_)
Cuts(s) ==
  IF s = <<>> THEN {<<>>}
  ELSE UNION {{<<Prefix(s, k)>> \o r : r \in Cuts(Suffix(s, k))} : k \in 1..Len(s)}

\* ------------------------------------------------------------------ actions
Range(s) == {s[i] : i \in 1..Len(s)}

\* a todo object that neither the store's map nor a session's snapshot points
\* to is garbage: its fields are no longer part of the state
Collect(st, uiNew, connNew) ==
  [st EXCEPT !.heap =
     [u \in Users |-> [id \in HeapIDs |->
        IF \/ st.userTodos[u] # NoUserTodos /\ id \in st.userTodos[u].Todos
           \/ \E c \in Conns : /\ connNew[c].phase = "session"
                               /\ uiNew[c].username = u
                               /\ id \in Range(uiNew[c].todos)
          THEN st.heap[u][id] ELSE NoTodo]]]

\* a panic in any goroutine ends the process
Alive == \A c \in Conns : conn[c].phase # "panicked"

NotTyped == [stage |-> "none", text |-> <<>>, target |-> 0]

Idle ==
  [phase |-> "idle", username |-> "", isNew |-> FALSE, registered |-> FALSE,
   status |-> <<>>, wire |-> <<>>,
   width |-> DefaultWidth, height |-> DefaultHeight, unread |-> <<>>]

\* the pass registered the session's user
Registered(cmds) ==
  \E i \in 1..Len(cmds) : cmds[i].op = "Register" /\ cmds[i].err = "nil"

\* an ssh.Request on the session channel
Request(type, wantReply, payload) ==
  [Type |-> type, WantReply |-> wantReply, Payload |-> payload]
NoRequest == Request("", FALSE, <<>>)

\* pass: the password a PasswordCallback step was given
\* slice: the slice a List call returned
\* req, reply: the request HandleChannel received or the client sent, and the
\* reply it got ("true", "false", or "none")
\* stream, keys: the pieces a byte stream reached the key loop in, and the
\* keys the loop made of them
NoInput(c) ==
  [conn |-> c, cmds |-> <<>>, exit |-> "none", msg |-> "", pass |-> <<>>, slice |-> <<>>,
   req |-> NoRequest, reply |-> "none", stream |-> <<>>, keys |-> <<>>]

\* ssh.ServerConfig.PasswordCallback: the connection is accepted when the
\* password authenticates, accepted as new when the user does not exist, and
\* refused otherwise
PasswordCallback(c, username, pass) ==
  /\ Alive
  /\ conn[c].phase = "idle"
  /\ LET a == Authenticate(userStore, username, pass) IN
     conn' = [conn EXCEPT ![c] =
                IF a.ok THEN [@ EXCEPT !.phase = "accepted", !.username = username,
                                       !.isNew = FALSE]
                ELSE IF a.isNew
                  THEN [@ EXCEPT !.phase = "accepted", !.username = username,
                                 !.isNew = TRUE]
                  ELSE [@ EXCEPT !.phase = "refused", !.username = username]]
  /\ last' = [NoInput(c) EXCEPT !.pass = pass]
  /\ UNCHANGED <<ui, todoStore, userStore, typed, issued, server>>

\* the channel handler of main and HandleChannel up to the first redraw:
\* isNewUser is looked up again, the TerminalUI is made, the shell request
\* is accepted and the display refreshed
StartSession(c) ==
  /\ Alive
  /\ conn[c].phase = "accepted"
  /\ conn[c].unread = <<>>
  /\ LET isNewUser == GetUser(userStore, conn[c].username) = NoUser
         r == refreshDisplay([NewTerminalUI(conn[c].username, isNewUser)
                                EXCEPT !.width = conn[c].width,
                                       !.height = conn[c].height],
                             todoStore)
     IN /\ ui' = [ui EXCEPT ![c] = r.t]
        /\ conn' = [conn EXCEPT ![c].phase = "session"]
        /\ todoStore' = Collect(r.st, ui', conn')
  /\ last' = NoInput(c)
  /\ UNCHANGED <<userStore, typed, issued, server>>

\* the exit-status requests HandleChannel sends for an outcome of handleInput:
\* 1 for a read error, and the deferred 0 in every case
ExitStatus(exit) == IF exit = "err" THEN <<1, 0>> ELSE <<0>>

\* what goes on the channel: bytes written, a request sent, the close
Write(bytes) == [kind |-> "write", what |-> bytes, code |-> 0]
SendRequest(name, code) == [kind |-> "request", what |-> name, code |-> code]
Close == [kind |-> "close", what |-> "", code |-> 0]

\* the deferred function of HandleChannel, then the deferred Close
Deferred ==
  <<Write("ESC[?25h"), Write("ESC[?7h"), Write("ESC[?1049l"), Write("Goodbye!"),
    SendRequest("exit-status", 0), Close>>

WireWithoutRestoreOnError(exit) ==
  IF exit = "err" THEN <<SendRequest("exit-status", 1), Close>> ELSE Deferred

\* what HandleChannel puts on the channel after handleInput returned (exit
\* "err": an error, "nil": nil), after a panic in it unwinds, or after the
\* request channel was closed
Wire(exit) ==
  IF exit = "err" THEN <<SendRequest("exit-status", 1)>> \o Deferred ELSE Deferred

\* HandleChannel when the request channel is closed before a shell request
\* came: the range loop ends and the deferred calls run
RequestsClosed(c) ==
  /\ Alive
  /\ conn[c].phase = "accepted"
  /\ conn[c].unread = <<>>
  /\ conn' = [conn EXCEPT ![c] = [@ EXCEPT !.phase = "closed",
                                           !.status = ExitStatus("requests"),
                                           !.wire = Wire("requests")]]
  /\ last' = [NoInput(c) EXCEPT !.exit = "requests"]
  /\ UNCHANGED <<ui, todoStore, userStore, typed, issued, server>>

\* int(payload[2])<<8 | int(payload[3]) and the like: payload[i] of Go is p[i + 1]
parsePtyRequest(p) ==
  IF Len(p) >= 8
    THEN [width |-> p[3] * 256 + p[4], height |-> p[5] * 256 + p[6]]
    ELSE [width |-> DefaultWidth, height |-> DefaultHeight]

parseWinchRequest(p) ==
  IF Len(p) >= 8
    THEN [width |-> p[1] * 16777216 + p[2] * 65536 + p[3] * 256 + p[4],
          height |-> p[5] * 16777216 + p[6] * 65536 + p[7] * 256 + p[8]]
    ELSE [width |-> DefaultWidth, height |-> DefaultHeight]

\* req.Reply(ok, nil) sends a reply only to a request that wants one
Reply(req, ok) == IF ~req.WantReply THEN "none" ELSE IF ok THEN "true" ELSE "false"

\* the switch of HandleChannel's request loop on a request other than the
\* shell request that starts the session: the size set and the reply sent
serveRequest(cn, req) ==
  IF req.Type = "shell"
    THEN [width |-> cn.width, height |-> cn.height, reply |-> Reply(req, FALSE)]
  ELSE IF req.Type = "pty-req"
    THEN LET s == parsePtyRequest(req.Payload) IN
         [width |-> s.width, height |-> s.height, reply |-> Reply(req, TRUE)]
  ELSE IF req.Type = "window-change"
    THEN LET s == parseWinchRequest(req.Payload) IN
         [width |-> s.width, height |-> s.height, reply |-> "none"]
  ELSE [width |-> cn.width, height |-> cn.height, reply |-> Reply(req, FALSE)]

\* the client sends a request on the session channel: it waits in the request
\* channel until HandleChannel receives it
ClientRequest(c, req) ==
  /\ Alive
  /\ conn[c].phase \in {"accepted", "session"}
  /\ Len(conn[c].unread) < MaxUnread
  /\ conn' = [conn EXCEPT ![c].unread = Append(@, req)]
  /\ last' = [NoInput(c) EXCEPT !.req = req]
  /\ UNCHANGED <<ui, todoStore, userStore, typed, issued, server>>

\* one turn of HandleChannel's request loop.  The loop runs until the shell
\* request: from then on HandleChannel is inside handleInput and returns
\* when it returns, so that it receives no request of a started session.
ServeRequest(c) ==
  /\ Alive
  /\ conn[c].phase = "accepted"
  /\ conn[c].unread # <<>>
  /\ LET req == Head(conn[c].unread)
         r == serveRequest(conn[c], req)
     IN /\ conn' = [conn EXCEPT ![c] = [@ EXCEPT !.unread = Tail(@),
                                                !.width = r.width,
                                                !.height = r.height]]
        /\ last' = [NoInput(c) EXCEPT !.req = req, !.reply = r.reply]
  /\ UNCHANGED <<ui, todoStore, userStore, typed, issued, server>>

\* the ids the Add calls among cmds returned, appended to those of the user
RECURSIVE Issue(_, _)
Issue(was, cmds) ==
  IF cmds = <<>> THEN was
  ELSE LET c == Head(cmds) IN
       Issue(IF c.op = "Add" /\ c.err = "nil"
               THEN [was EXCEPT ![c.user] = Append(@, c.id)] ELSE was,
             Tail(cmds))

\* what a session is in the middle of: typing once Tab opened a new todo and
\* while only printable bytes follow (text: the bytes typed), entered after the
\* Enter that ends the typing, aborted after a Tab in ModeInput (text: the
\* buffer it discarded); target: while the session edits a todo, the id of
\* the todo that Enter in ModeNormal opened for editing
Target(t, b, was) ==
  IF t.mode = ModeNormal /\ b = KeyEnter /\ Len(t.todos) > 0 /\ InRange(t)
    THEN SelectedID(t)
  ELSE IF t.mode = ModeInput /\ t.inputLabel = LabelEdit
            /\ b \notin {KeyEnter, KeyCtrlC}
    THEN was.target
    ELSE 0

Typed(t, in, was) ==
  IF in[1].err # "nil" \/ in[1].data = <<>> THEN NotTyped
  ELSE LET b == in[1].data[1] IN
    IF t.mode = ModeNormal /\ b = KeyTab
      THEN [stage |-> "typing", text |-> <<>>, target |-> 0]
    ELSE IF t.mode = ModeInput /\ b = KeyTab
      THEN [stage |-> "aborted", text |-> t.inputText, target |-> 0]
    ELSE IF t.mode = ModeInput /\ was.stage = "typing" /\ IsPrintable(b)
      THEN [stage |-> "typing", text |-> Append(was.text, b), target |-> 0]
    ELSE IF t.mode = ModeInput /\ was.stage = "typing" /\ b = KeyEnter
      THEN [stage |-> "entered", text |-> was.text, target |-> 0]
      ELSE [NotTyped EXCEPT !.target = Target(t, b, was)]

\* one pass of the key loop of connection c's session
HandleInput(c, in, saveOk) ==
  /\ Alive
  /\ conn[c].phase = "session"
  /\ \E r \in {handleInput(ui[c], todoStore, userStore, in, saveOk)} :
     /\ r.ok
     /\ r.need = Len(in)
     /\ ui' = [ui EXCEPT ![c] = IF r.exit = "none" THEN r.t ELSE NoUI]
     /\ conn' = [conn EXCEPT ![c] =
                   IF r.exit = "none"
                     THEN [@ EXCEPT !.registered = @ \/ Registered(r.cmds)]
                   ELSE IF r.exit = "panic"
                     THEN [@ EXCEPT !.phase = "panicked", !.wire = Wire(r.exit)]
                   ELSE [@ EXCEPT !.phase = "closed", !.status = ExitStatus(r.exit),
                                  !.wire = Wire(r.exit)]]
     /\ todoStore' = Collect(r.st, ui', conn')
     /\ userStore' = r.us
     /\ last' = [NoInput(c) EXCEPT !.cmds = r.cmds, !.exit = r.exit, !.msg = r.msg]
     /\ typed' = [typed EXCEPT ![c] = Typed(ui[c], in, typed[c])]
     /\ issued' = Issue(issued, r.cmds)
     /\ UNCHANGED server

\* ------------------------------------------------------------------ server
NetConns == {"n1", "n2"}

\* the Server after Start: the listener is open, the accept loop's goroutine
\* is counted in the WaitGroup and waits in Accept.  net: a connection is
\* none (no client yet), open or closed; handler: its handleConnection is
\* none, started (go handleConnection, not yet in s.conns), serving (in
\* s.conns, in ssh.NewServerConn or the range over chans) or done;
\* close: where Close is
Started ==
  [cancelled |-> FALSE, listener |-> "open", loop |-> "accept", got |-> "",
   conns |-> {}, wg |-> 1, close |-> "idle",
   net |-> [k \in NetConns |-> "none"],
   handler |-> [k \in NetConns |-> "none"]]

ServerStep(new) ==
  /\ server' = new
  /\ UNCHANGED <<conn, ui, todoStore, userStore, last, typed, issued>>

\* listener.Accept returns the connection of a client
Accept(k) ==
  /\ server.loop = "accept" /\ server.listener = "open"
  /\ server.net[k] = "none"
  /\ ServerStep([server EXCEPT !.net[k] = "open", !.loop = "got", !.got = k])

\* listener.Accept fails on the closed listener: the context is done (Close
\* cancels before it closes the listener), the loop returns, wg.Done
AcceptError ==
  /\ server.loop = "accept" /\ server.listener = "closed"
  /\ server.cancelled
  /\ ServerStep([server EXCEPT !.loop = "done", !.wg = @ - 1])

\* s.wg.Add(1); go s.handleConnection(conn)
GoHandleConnection ==
  /\ server.loop = "got"
  /\ ServerStep([server EXCEPT !.wg = @ + 1, !.handler[server.got] = "started",
                               !.loop = "accept", !.got = ""])

\* handleConnection puts its connection in s.conns
TrackConnection(k) ==
  /\ server.handler[k] = "started"
  /\ ServerStep([server EXCEPT !.conns = @ \cup {k}, !.handler[k] = "serving"])

\* the client closes the connection, or fails the handshake
ClientLeaves(k) ==
  /\ server.net[k] = "open"
  /\ ServerStep([server EXCEPT !.net[k] = "closed"])

\* handleConnection returns once its connection is closed (NewServerConn
\* fails, or chans is closed): the deferred calls take the connection out of
\* s.conns, close it, and wg.Done
ConnectionDone(k) ==
  /\ server.handler[k] = "serving" /\ server.net[k] = "closed"
  /\ ServerStep([server EXCEPT !.conns = @ \ {k}, !.handler[k] = "done",
                               !.wg = @ - 1])

\* Close, a statement at a time: s.cancel()
CloseCancel ==
  /\ server.close = "idle"
  /\ ServerStep([server EXCEPT !.cancelled = TRUE, !.close = "cancelled"])

\* s.listener.Close()
CloseListener ==
  /\ server.close = "cancelled"
  /\ ServerStep([server EXCEPT !.listener = "closed", !.close = "listener"])

\* under s.mu, conn.Close() for every connection in s.conns
CloseConns ==
  /\ server.close = "listener"
  /\ ServerStep([server EXCEPT
                   !.net = [k \in NetConns |->
                              IF k \in server.conns THEN "closed" ELSE server.net[k]],
                   !.close = "wait"])

\* s.wg.Wait() returns, and Close with it
CloseReturn ==
  /\ server.close = "wait" /\ server.wg = 0
  /\ ServerStep([server EXCEPT !.close = "returned"])

\* ------------------------------------------------------------ specifications
Pw(b) == [i \in 1..MinPasswordLen |-> b]
Passwords(letters) == {Pw(b) : b \in letters}

EmptyTodoStore ==
  [userTodos |-> [u \in Users |-> NoUserTodos],
   heap |-> [u \in Users |-> [id \in HeapIDs |-> NoTodo]],
   disk |-> [u \in Users |-> NoFile],
   now |-> 0]

InitCommon ==
  /\ conn = [c \in Conns |-> Idle]
  /\ ui = [c \in Conns |-> NoUI]
  /\ todoStore = EmptyTodoStore
  /\ last = NoInput("c1")
  /\ typed = [c \in Conns |-> NotTyped]
  /\ issued = [u \in Users |-> <<>>]
  /\ server = Started

\* Spec: one connection of a registered user, the whole key set
SoloInputs ==
  ControlKeys \cup ArrowKeys \cup EndOfInput
    \cup {Key(KeySpace), DeleteSeq} \cup {Key(b) : b \in LetterA}

Init ==
  /\ InitCommon
  /\ userStore = [u \in Users |->
                    [PasswordHash |-> GenerateFromPassword(
                                        CHOOSE p \in Passwords(LetterA) : TRUE)]]

Next ==
  \/ \E pass \in Passwords(LetterA \cup LetterB) : PasswordCallback("c1", "alice", pass)
  \/ StartSession("c1")
  \/ \E in \in SoloInputs : HandleInput("c1", in, TRUE)

Spec == Init /\ [][Next]_vars

\* SpecReg: one connection of an unknown user that registers, passwords over
\* two letters
RegInputs ==
  {Key(KeyCtrlC), Key(KeyEnter), Key(KeyBackspace), Key(KeyEsc), <<ReadEOF>>}
    \cup {Key(b) : b \in LetterA \cup LetterB}
    \cup {EnterThen(b) : b \in LetterA}

InitNew ==
  /\ InitCommon
  /\ userStore = [u \in Users |-> NoUser]

NextReg ==
  \/ \E pass \in Passwords(LetterA) : PasswordCallback("c1", "alice", pass)
  \/ StartSession("c1")
  \/ \E in \in RegInputs, saveOk \in BOOLEAN : HandleInput("c1", in, saveOk)

SpecReg == InitNew /\ [][NextReg]_vars

\* SpecAll: one connection of an unknown user, from the password callback
\* through registration to browsing and editing, one letter
AllInputs ==
  ControlKeys \cup ArrowKeys \cup EndOfInput \cup {DeleteSeq}
    \cup {Key(b) : b \in LetterA} \cup {EnterThen(b) : b \in LetterA}

NextAll ==
  \/ \E pass \in Passwords(LetterA) : PasswordCallback("c1", "alice", pass)
  \/ StartSession("c1")
  \/ \E in \in AllInputs : HandleInput("c1", in, TRUE)

SpecAll == InitNew /\ [][NextAll]_vars

\* SpecDuo: two sessions of one registered user; c1 adds, edits and deletes,
\* c2 toggles and deletes
DuoInputs(c) ==
  IF c = "c1"
    THEN {Key(KeyTab), Key(KeyEnter), EscSeq(SeqDown), DeleteSeq}
           \cup {Key(b) : b \in LetterA}
    ELSE {Key(KeySpace), DeleteSeq}

NextDuo ==
  \/ \E c \in Conns, pass \in Passwords(LetterA) : PasswordCallback(c, "alice", pass)
  \/ \E c \in Conns : StartSession(c)
  \/ \E c \in Conns : \E in \in DuoInputs(c) : HandleInput(c, in, TRUE)

SpecDuo == Init /\ [][NextDuo]_vars

\* SpecRace: two connections of one unknown user, both accepted as new;
\* c1 types 'a', c2 types 'b'
RaceInputs(c) ==
  {Key(KeyEnter), Key(KeyCtrlC)}
    \cup {Key(b) : b \in IF c = "c1" THEN LetterA ELSE LetterB}
    \cup {EnterThen(b) : b \in LetterA}

NextRace ==
  \/ \E c \in Conns, pass \in Passwords(LetterA \cup LetterB) :
        PasswordCallback(c, "alice", pass)
  \/ \E c \in Conns : StartSession(c)
  \/ \E c \in Conns : \E in \in RaceInputs(c), saveOk \in BOOLEAN :
        HandleInput(c, in, saveOk)

SpecRace == InitNew /\ [][NextRace]_vars

\* SpecExit: one connection of an unknown user and the ways its session ends:
\* Ctrl+C, end of input and a read error while registering and while
\* browsing, a registration whose save fails, the request channel closed
\* before the shell request
ExitInputs ==
  {Key(KeyCtrlC), Key(KeyEnter), Key(KeyTab), <<ReadEOF>>, <<ReadErr>>}
    \cup {Key(b) : b \in LetterA} \cup {EnterThen(b) : b \in LetterA}

NextExit ==
  \/ \E pass \in Passwords(LetterA) : PasswordCallback("c1", "alice", pass)
  \/ StartSession("c1")
  \/ RequestsClosed("c1")
  \/ \E in \in ExitInputs, saveOk \in BOOLEAN : HandleInput("c1", in, saveOk)

SpecExit == InitNew /\ [][NextExit]_vars

\* SpecReq: one connection of a registered user whose client sends channel
\* requests before and after the shell request: a pty-req, window-changes
\* (one with a payload too short to parse), a shell request with a payload,
\* and requests of a type HandleChannel does not know, wanting a reply or not
PtyPayload == <<0, 0, 0, 120, 0, 40, 0, 0>>
WinchPayload == <<0, 0, 0, 100, 0, 0, 0, 30>>
Requests ==
  {Request("pty-req", TRUE, PtyPayload),
   Request("window-change", FALSE, WinchPayload),
   Request("window-change", FALSE, <<0, 100>>),
   Request("shell", TRUE, <<1>>)}
    \cup {Request("env", w, <<>>) : w \in BOOLEAN}

ReqInputs ==
  {Key(KeyTab), Key(KeyEnter), Key(KeyCtrlC), EscSeq(SeqDown), <<ReadEOF>>}
    \cup {Key(b) : b \in LetterA}

NextReq ==
  \/ \E pass \in Passwords(LetterA) : PasswordCallback("c1", "alice", pass)
  \/ StartSession("c1")
  \/ RequestsClosed("c1")
  \/ \E req \in Requests : ClientRequest("c1", req)
  \/ ServeRequest("c1")
  \/ \E in \in ReqInputs : HandleInput("c1", in, TRUE)

SpecReq == Init /\ [][NextReq]_vars

\* SpecDecode: the decoder of the key loop alone, given every stream of the
\* bytes ESC, '[', 'A', '3' and '~' in every way of cutting it in pieces
StreamBytes == {KeyEsc, SeqBracket, SeqUp, SeqDelete, SeqTilde}
Streams == UNION {[1..n -> StreamBytes] : n \in 1..MaxStream}

Deliver(pieces) ==
  /\ last.stream = <<>>
  /\ last' = [NoInput("c1") EXCEPT !.stream = pieces, !.keys = Decode(pieces)]
  /\ UNCHANGED <<conn, ui, todoStore, userStore, typed, issued, server>>

NextDecode == \E s \in Streams : \E pieces \in Cuts(s) : Deliver(pieces)

SpecDecode == InitNew /\ [][NextDecode]_vars

\* SpecServer: the server accepts the connections of two clients, which may
\* leave, and is closed
NextServer ==
  \/ \E k \in NetConns : Accept(k)
  \/ AcceptError
  \/ GoHandleConnection
  \/ \E k \in NetConns : TrackConnection(k)
  \/ \E k \in NetConns : ClientLeaves(k)
  \/ \E k \in NetConns : ConnectionDone(k)
  \/ CloseCancel
  \/ CloseListener
  \/ CloseConns
  \/ CloseReturn

SpecServer == Init /\ [][NextServer]_vars

\* SpecStore: goroutines that call the todo store of two users directly, every
\* save succeeding.  A call is one step: Add holds the store's lock from entry
\* to return, the others take it again after getUserTodos returned the user's
\* entry, which no call replaces once it exists.  alice's todos get every
\* call, with ids that exist, were deleted, were never assigned, are zero or
\* negative; bob's are added, listed and deleted.
StoreIDs == -1..MaxTodos
StoreTexts == {<<b>> : b \in LetterA \cup LetterB}
TextsOf(u) == IF u = "alice" THEN StoreTexts ELSE {<<b>> : b \in LetterA}
IDsOf(u) == IF u = "alice" THEN StoreIDs ELSE TodoIDs

\* the step of a store call: the store after it, the command with its outcome,
\* the slice a List returned
Called(st, cmd, slice) ==
  /\ todoStore' = Collect(st, ui, conn)
  /\ issued' = Issue(issued, <<cmd>>)
  /\ last' = [NoInput("c1") EXCEPT !.cmds = <<cmd>>, !.slice = slice]
  /\ UNCHANGED <<conn, ui, userStore, typed, server>>

StoreAdd(u, text) ==
  /\ todoStore.userTodos[u] # NoUserTodos => todoStore.userTodos[u].NextID <= MaxTodos
  /\ \E r \in {Add(todoStore, u, text, TRUE)} :
        Called(r.st, Cmd("Add", u, r.id, text, r.err), <<>>)

StoreList(u) ==
  \E r \in {List(todoStore, u)} : \E o \in r.slices :
    Called(r.st, Cmd("List", u, 0, <<>>, r.err), o)

StoreGet(u, id) ==
  \E r \in {Get(todoStore, u, id)} :
    Called(r.st, Cmd("Get", u, id, <<>>, r.err), <<>>)

StoreUpdate(u, id, text) ==
  \E r \in {Update(todoStore, u, id, text, TRUE)} :
    Called(r.st, Cmd("Update", u, id, text, r.err), <<>>)

StoreDelete(u, id) ==
  \E r \in {Delete(todoStore, u, id, TRUE)} :
    Called(r.st, Cmd("Delete", u, id, <<>>, r.err), <<>>)

StoreToggleComplete(u, id) ==
  \E r \in {ToggleComplete(todoStore, u, id, TRUE)} :
    Called(r.st, Cmd("ToggleComplete", u, id, <<>>, r.err), <<>>)

\* time passes between two calls
Tick ==
  /\ todoStore.now < MaxTime
  /\ todoStore' = [todoStore EXCEPT !.now = @ + 1]
  /\ UNCHANGED <<conn, ui, userStore, last, typed, issued, server>>

NextStore ==
  \/ \E u \in Users : \E text \in TextsOf(u) : StoreAdd(u, text)
  \/ \E u \in Users : StoreList(u)
  \/ \E u \in Users : \E id \in IDsOf(u) : StoreDelete(u, id)
  \/ \E id \in StoreIDs : StoreGet("alice", id)
  \/ \E id \in StoreIDs, text \in StoreTexts : StoreUpdate("alice", id, text)
  \/ \E id \in StoreIDs : StoreToggleComplete("alice", id)

SpecStore == InitNew /\ [][NextStore]_vars

\* SpecRestart: store calls that succeed, and restarts of the process:
\* todo.NewStore on the same data directory makes a store with nothing in
\* memory.  alice's todos are added, listed, updated, completed and deleted,
\* bob's are added.
NewStore(disk, now) == [EmptyTodoStore EXCEPT !.disk = disk, !.now = now]

Reopen ==
  /\ todoStore' = NewStore(todoStore.disk, todoStore.now)
  /\ issued' = [u \in Users |-> <<>>]
  /\ last' = [NoInput("c1") EXCEPT !.cmds = <<Cmd("NewStore", "", 0, <<>>, "nil")>>]
  /\ UNCHANGED <<conn, ui, userStore, typed, server>>

NextRestart ==
  \/ \E u \in Users, b \in LetterA : StoreAdd(u, <<b>>)
  \/ StoreList("alice")
  \/ \E id \in TodoIDs : StoreDelete("alice", id)
  \/ \E id \in TodoIDs, b \in LetterB : StoreUpdate("alice", id, <<b>>)
  \/ \E id \in TodoIDs : StoreToggleComplete("alice", id)
  \/ Reopen

SpecRestart == InitNew /\ [][NextRestart]_vars

\* SpecBrowse: one connection of a registered user whose file, written by an
\* earlier run, holds a todo for every id; the session moves the selection,
\* toggles and deletes
OldFile ==
  [Todos |-> [id \in HeapIDs |->
                [Text |-> CHOOSE text \in StoreTexts : TRUE, Completed |-> FALSE,
                 CreatedAt |-> 0, UpdatedAt |-> 0]],
   NextID |-> MaxTodos + 2]

InitBrowse ==
  /\ conn = [c \in Conns |-> Idle]
  /\ ui = [c \in Conns |-> NoUI]
  /\ todoStore = NewStore([u \in Users |-> IF u = "alice" THEN OldFile ELSE NoFile], 0)
  /\ last = NoInput("c1")
  /\ typed = [c \in Conns |-> NotTyped]
  /\ issued = [u \in Users |-> <<>>]
  /\ server = Started
  /\ userStore = [u \in Users |->
                    [PasswordHash |-> GenerateFromPassword(
                                        CHOOSE p \in Passwords(LetterA) : TRUE)]]

BrowseInputs == {EscSeq(SeqUp), EscSeq(SeqDown), DeleteSeq, Key(KeySpace)}

NextBrowse ==
  \/ \E pass \in Passwords(LetterA) : PasswordCallback("c1", "alice", pass)
  \/ StartSession("c1")
  \/ \E in \in BrowseInputs : HandleInput("c1", in, TRUE)

SpecBrowse == InitBrowse /\ [][NextBrowse]_vars

\* SpecClock: the calls that write a todo's times and flag, for one user, with
\* time passing between them
NextClock ==
  \/ \E text \in TextsOf("bob") : StoreAdd("alice", text)
  \/ \E id \in TodoIDs : StoreToggleComplete("alice", id)
  \/ \E id \in TodoIDs, text \in StoreTexts : StoreUpdate("alice", id, text)
  \/ Tick

SpecClock == InitNew /\ [][NextClock]_vars

\* ===================================================================== claims
InSession(c) == conn[c].phase = "session"
Listing(c) == InSession(c) /\ ui[c].mode # ModeRegister

\* selected is an index of the snapshot, or 0 for the empty snapshot
SelectedValid(t) == t.selected >= 0 /\ t.selected <= Max(0, Len(t.todos) - 1)

\* C1: with one session and no other writer, after every key (ArrowUp,
\* ArrowDown and Delete among them) selected is in [0, max(0, len(todos)-1)] of
\* the snapshot the redraw that ends the pass loaded.
C1_SelectedInRange == \A c \in Conns : Listing(c) => SelectedValid(ui[c])

\* C1 witness: the second of two todos, selected, was deleted and selected
\* was re-clamped to the todo that is left
C1_Witness ==
  /\ InSession("c1")
  /\ last.cmds # <<>> /\ last.cmds[1].op = "Delete" /\ last.cmds[1].id = 2
  /\ last.cmds[1].err = "nil"
  /\ ui["c1"].todos = <<1>> /\ ui["c1"].selected = 0

\* C2: in every session state 0 <= cursorPos <= len(inputText), through
\* registration, browsing and editing.
C2_CursorInBuffer ==
  \A c \in Conns :
    InSession(c) => ui[c].cursorPos >= 0 /\ ui[c].cursorPos <= Len(ui[c].inputText)

\* C2 witness: a session that registered its user edits a todo with the cursor
\* moved off the end of the buffer
C2_Witness ==
  /\ InSession("c1") /\ conn["c1"].registered
  /\ ui["c1"].mode = ModeInput /\ ui["c1"].inputLabel = LabelEdit
  /\ ui["c1"].inputText # <<>> /\ ui["c1"].cursorPos < Len(ui["c1"].inputText)

\* C3 (as claimed): with two sessions of one user, selected stays valid for
\* the snapshot each session holds after its redraw, and no key indexes the
\* snapshot out of range (no pass panics).
C3_SelectedValidTwoSessions ==
  \A c \in Conns :
    /\ conn[c].phase # "panicked"
    /\ Listing(c) => SelectedValid(ui[c])

\* the user's todos as a redraw shows them
Shown(st, username) == SortByID(SeqOfSet(st.userTodos[username].Todos))

\* C4: a pass whose ToggleComplete, Delete or Update comes back not-found
\* (the todo was deleted by the other session) does not end the session: the
\* store's todos are as before, the session is in ModeNormal with the buffer
\* cleared, and its snapshot is the store's list.
C4_NotFoundDropped ==
  [][ (last'.cmds # <<>> /\ last'.cmds[1].err = "notfound") =>
        LET c == last'.conn
            u == conn[c].username
        IN /\ conn'[c].phase = "session"
           /\ last'.exit = "none"
           /\ Len(last'.cmds) = 1
           /\ ui'[c].mode = ModeNormal
           /\ ui'[c].inputText = <<>> /\ ui'[c].cursorPos = 0
           /\ todoStore'.userTodos = todoStore.userTodos
           /\ todoStore'.disk = todoStore.disk
           /\ \A id \in todoStore.userTodos[u].Todos :
                 todoStore'.heap[u][id] = todoStore.heap[u][id]
           /\ ui'[c].todos = Shown(todoStore', u) ]_vars

\* C4 witness: an Update came back not-found and the session is browsing
C4_Witness ==
  /\ last.cmds # <<>> /\ last.cmds[1].op = "Update" /\ last.cmds[1].err = "notfound"
  /\ InSession(last.conn) /\ ui[last.conn].mode = ModeNormal

\* s without its leading and trailing spaces, said without TrimSpace
Trimmed(s) ==
  CHOOSE r \in {SubSeq(s, i, j) : i \in 1..(Len(s) + 1), j \in 0..Len(s)} :
    \E i \in 1..(Len(s) + 1), j \in 0..Len(s) :
      /\ r = SubSeq(s, i, j)
      /\ \A k \in 1..Len(s) : (k < i \/ k > j) => s[k] = 32
      /\ r = <<>> \/ (r[1] # 32 /\ r[Len(r)] # 32)

\* C5: from ModeNormal, Tab and printable bytes issue no store command and
\* leave the bytes typed in the buffer of a new todo; the Enter after them,
\* when the text has more than spaces, issues exactly one Add of the text
\* trimmed and leaves the session in ModeNormal, buffer empty, cursorPos 0.
C5_TabTypeEnterAdds ==
  \A c \in Conns :
    /\ typed[c].stage = "typing" =>
          /\ InSession(c) /\ ui[c].mode = ModeInput /\ ui[c].inputLabel = LabelNew
          /\ ui[c].inputText = typed[c].text
          /\ last.conn = c => last.cmds = <<>>
    /\ (typed[c].stage = "entered" /\ Trimmed(typed[c].text) # <<>>) =>
          /\ InSession(c) /\ last.conn = c
          /\ Len(last.cmds) = 1
          /\ last.cmds[1].op = "Add" /\ last.cmds[1].user = conn[c].username
          /\ last.cmds[1].text = Trimmed(typed[c].text)
          /\ last.cmds[1].err = "nil"
          /\ ui[c].mode = ModeNormal /\ ui[c].inputText = <<>> /\ ui[c].cursorPos = 0

\* C5 witness: a text typed with a space before it was entered and added
\* without the space
C5_Witness ==
  /\ typed["c1"].stage = "entered" /\ typed["c1"].text = <<32, 97>>
  /\ last.cmds # <<>> /\ last.cmds[1].op = "Add" /\ last.cmds[1].text = <<97>>
  /\ ui["c1"].mode = ModeNormal

\* C6: Tab in ModeInput, for a new todo and for an edited one, with any
\* buffer, issues no store command, leaves the store as it was and the session
\* in ModeNormal with the buffer empty.
C6_TabAbortsEdit ==
  [][ \A c \in Conns :
        typed'[c].stage = "aborted" /\ typed'[c] # typed[c] =>
          /\ last'.conn = c /\ last'.cmds = <<>> /\ last'.exit = "none"
          /\ todoStore' = todoStore
          /\ InSession(c)' /\ ui'[c].mode = ModeNormal
          /\ ui'[c].inputText = <<>> /\ ui'[c].cursorPos = 0 ]_vars

\* C6 witness: the edit of an existing todo was aborted with text in the buffer
C6_Witness ==
  /\ typed["c1"].stage = "aborted" /\ typed["c1"].text # <<>>
  /\ InSession("c1") /\ ui["c1"].inputLabel = LabelEdit
  /\ ui["c1"].mode = ModeNormal /\ ui["c1"].todos # <<>>

Registering(c) == InSession(c) /\ ui[c].mode = ModeRegister

\* C7: at the first step of registration Enter on a buffer of 6 bytes or more
\* moves to the second step with password the buffer and the buffer empty; at
\* the second step Enter on a buffer equal to password issues exactly one
\* Register of the session's user with that password and, when it succeeds,
\* stores it and leaves the session in ModeNormal.
C7_RegisterInTwoSteps ==
  \A c \in Conns : Registering(c) =>
    /\ (ui[c].registerStep = 0 /\ Len(ui[c].inputText) >= 6) =>
          \E r \in {handleInput(ui[c], todoStore, userStore, Key(KeyEnter), TRUE)} :
            /\ r.ok /\ r.need = 1 /\ r.exit = "none" /\ r.cmds = <<>>
            /\ r.us = userStore
            /\ r.t.mode = ModeRegister /\ r.t.registerStep = 1
            /\ r.t.password = ui[c].inputText /\ r.t.inputText = <<>>
    /\ (ui[c].registerStep = 1 /\ ui[c].inputText = ui[c].password) =>
          \A saveOk \in BOOLEAN :
            \E r \in {handleInput(ui[c], todoStore, userStore, EnterThen(97), saveOk)} :
              /\ r.ok /\ Len(r.cmds) = 1
              /\ r.cmds[1].op = "Register" /\ r.cmds[1].user = conn[c].username
              /\ r.cmds[1].text = ui[c].password
              /\ saveOk => r.cmds[1].err = "nil"
              /\ r.cmds[1].err = "nil" =>
                    /\ r.exit = "none" /\ r.t.mode = ModeNormal
                    /\ r.us[conn[c].username] # NoUser
                    /\ r.us[conn[c].username].PasswordHash.bcrypt = ui[c].password

\* C7 witness: a password of both letters was registered and the session is
\* browsing
C7_Witness ==
  /\ last.msg = "Registration successful!" /\ last.conn = "c1"
  /\ Len(last.cmds) = 1 /\ last.cmds[1].op = "Register" /\ last.cmds[1].err = "nil"
  /\ \E i, j \in 1..Len(last.cmds[1].text) :
        last.cmds[1].text[i] = 97 /\ last.cmds[1].text[j] = 98
  /\ InSession("c1") /\ ui["c1"].mode = ModeNormal
  /\ userStore["alice"] # NoUser
  /\ userStore["alice"].PasswordHash.bcrypt = last.cmds[1].text

\* C8: at the first step of registration Enter on a buffer shorter than 6
\* bytes issues no Register, stays in ModeRegister at the first step and
\* empties the buffer.
C8_ShortPasswordRejected ==
  \A c \in Conns :
    (Registering(c) /\ ui[c].registerStep = 0 /\ Len(ui[c].inputText) < 6) =>
      \A b \in LetterA \cup LetterB :
        \E r \in {handleInput(ui[c], todoStore, userStore, EnterThen(b), TRUE)} :
          /\ r.ok /\ r.exit = "none" /\ r.cmds = <<>> /\ r.us = userStore
          /\ r.t.mode = ModeRegister /\ r.t.registerStep = 0
          /\ r.t.inputText = <<>> /\ r.t.password = ui[c].password

\* C8 witness: the message for a short password was shown and the session is
\* at the first step with an empty buffer
C8_Witness ==
  /\ last.msg = "Password must be at least 6 characters long." /\ last.conn = "c1"
  /\ last.cmds = <<>>
  /\ Registering("c1") /\ ui["c1"].registerStep = 0 /\ ui["c1"].inputText = <<>>
  /\ userStore["alice"] = NoUser

\* C9 (as claimed): Register never replaces a stored credential, and a session
\* is in ModeRegister only while its user has no credential.
C9_RegisterNeverReplaces ==
  [][ /\ \A u \in Users : userStore[u] # NoUser => userStore'[u] = userStore[u]
      /\ \A c \in Conns :
           (conn'[c].phase = "session" /\ ui'[c].mode = ModeRegister) =>
             userStore'[conn'[c].username] = NoUser ]_vars

\* C10 (as claimed): a session is in ModeNormal or ModeInput for its user only
\* if its connection's password authenticated (is_new false) or the session
\* registered the user itself.
C10_BrowsingOnlyAuthenticated ==
  \A c \in Conns : Listing(c) => (~conn[c].isNew \/ conn[c].registered)

\* C11: a connection for a user with a stored credential is accepted exactly
\* when the password it gave is the one the credential was made from, and then
\* not as new; a connection for a user without one is accepted with any
\* password and marked new.
C11_AcceptedIffAuthenticates ==
  [][ \A c \in Conns :
        (conn[c].phase = "idle" /\ conn'[c].phase # "idle") =>
          LET stored == userStore[conn'[c].username] IN
          /\ last'.conn = c
          /\ conn'[c].phase \in {"accepted", "refused"}
          /\ stored # NoUser =>
                /\ conn'[c].phase = "accepted" <=> stored.PasswordHash.bcrypt = last'.pass
                /\ ~conn'[c].isNew
          /\ stored = NoUser => conn'[c].phase = "accepted" /\ conn'[c].isNew ]_vars

\* C11 witness: c1 was accepted as new and registered; c2 then gave another
\* password and was refused
C11_Witness ==
  /\ conn["c1"].isNew /\ conn["c1"].registered
  /\ userStore["alice"] # NoUser
  /\ last.conn = "c2" /\ conn["c2"].phase = "refused"
  /\ last.pass # userStore["alice"].PasswordHash.bcrypt

\* the ids of the todos List returns for the user
Listed(st, username) == UNION {Range(o) : o \in List(st, username).slices}

\* C12: in any interleaving of the calls of two users, every Add returns an id
\* greater than every id an Add returned for that user before, the first being
\* 1, so that no two Adds share an id and the id of a deleted todo does not
\* come back; the todo added appears in List next to those that were there.
C12_AddIdsIncrease ==
  [][ \A u \in Users :
        issued'[u] # issued[u] =>
          LET id == last'.cmds[1].id IN
          /\ last'.cmds[1].op = "Add" /\ last'.cmds[1].user = u
          /\ issued'[u] = Append(issued[u], id)
          /\ \A i \in 1..Len(issued[u]) : id > issued[u][i]
          /\ issued[u] = <<>> => id = 1
          /\ id \notin Listed(todoStore, u)
          /\ Listed(todoStore', u) = Listed(todoStore, u) \cup {id} ]_vars

\* C12 witness: alice's todo 1 was deleted, bob added one meanwhile, and the
\* Add after it returned 2
C12_Witness ==
  /\ last.cmds # <<>> /\ last.cmds[1].op = "Add" /\ last.cmds[1].user = "alice"
  /\ issued["alice"] = <<1, 2>> /\ issued["bob"] = <<1>>
  /\ Listed(todoStore, "alice") = {2}

\* what List and Get return for the user: the slices, the fields of the todos
\* in them, and for every id whether Get finds it
Answers(st, username) ==
  LET l == List(st, username) IN
  [slices |-> l.slices,
   todos |-> [id \in Listed(st, username) |-> l.st.heap[username][id]],
   found |-> {id \in StoreIDs : Get(st, username, id).err = "nil"}]

Tasks(st, username) ==
  LET l == List(st, username) IN
  [id \in Listed(st, username) |->
     [Text |-> l.st.heap[username][id].Text,
      Completed |-> l.st.heap[username][id].Completed]]

C15_UnknownIdNotFound ==
  [][ (/\ last'.cmds # <<>>
       /\ last'.cmds[1].op \in {"Update", "Delete", "ToggleComplete", "Get"}
       /\ last'.cmds[1].id \notin Listed(todoStore, last'.cmds[1].user)) =>
        /\ last'.cmds[1].err = "notfound"
        /\ Answers(todoStore', last'.cmds[1].user)
             = Answers(todoStore, last'.cmds[1].user) ]_vars

\* C15 witness: alice's todo 1 was deleted, she has todo 2, and a Delete of 1
\* came back not-found
C15_Witness ==
  /\ last.cmds # <<>> /\ last.cmds[1].op = "Delete" /\ last.cmds[1].user = "alice"
  /\ last.cmds[1].id = 1 /\ last.cmds[1].err = "notfound"
  /\ issued["alice"] = <<1, 2>>
  /\ Listed(todoStore, "alice") = {2}

\* C16: a ToggleComplete of a todo the user has negates its Completed and
\* leaves its id, Text and CreatedAt, and every other todo, as they were; a
\* second ToggleComplete of it gives Completed its first value back.
C16_ToggleTwiceRestores ==
  [][ /\ \A u \in Users : \A id \in Listed(todoStore, u) :
           LET once == ToggleComplete(todoStore, u, id, TRUE)
               twice == ToggleComplete(once.st, u, id, TRUE)
           IN /\ once.err = "nil" /\ twice.err = "nil"
              /\ once.st.heap[u][id].Completed = ~todoStore.heap[u][id].Completed
              /\ twice.st.heap[u][id].Completed = todoStore.heap[u][id].Completed
      /\ (/\ todoStore'.now = todoStore.now
          /\ last'.cmds # <<>>
          /\ last'.cmds[1].op = "ToggleComplete" /\ last'.cmds[1].err = "nil") =>
            LET u == last'.cmds[1].user
                id == last'.cmds[1].id
            IN /\ Listed(todoStore', u) = Listed(todoStore, u)
               /\ id \in Listed(todoStore, u)
               /\ todoStore'.heap[u][id].Completed = ~todoStore.heap[u][id].Completed
               /\ todoStore'.heap[u][id].Text = todoStore.heap[u][id].Text
               /\ todoStore'.heap[u][id].CreatedAt = todoStore.heap[u][id].CreatedAt
               /\ \A v \in Users : \A other \in Listed(todoStore, v) :
                     (v # u \/ other # id) =>
                       todoStore'.heap[v][other] = todoStore.heap[v][other] ]_vars

\* C16 witness: alice's todo 1, made at time 0, was toggled to completed and,
\* at time 1, toggled back, while her todo 2 stays completed
C16_Witness ==
  /\ last.cmds # <<>> /\ last.cmds[1].op = "ToggleComplete"
  /\ last.cmds[1].id = 1 /\ last.cmds[1].err = "nil"
  /\ Listed(todoStore, "alice") = {1, 2}
  /\ todoStore.heap["alice"][1].Completed = FALSE
  /\ todoStore.heap["alice"][1].CreatedAt = 0
  /\ todoStore.heap["alice"][1].UpdatedAt = 1
  /\ todoStore.heap["alice"][2].Completed = TRUE

\* C17 (as claimed): the slice a List call returns is ordered by id ascending.
C17_ListOrderedByID ==
  \A i, j \in 1..Len(last.slice) : i < j => last.slice[i] < last.slice[j]

\* where on the channel the exit-status requests are
StatusPlaces(w) ==
  {i \in 1..Len(w) : w[i].kind = "request" /\ w[i].what = "exit-status"}

\* C18 (as claimed): whichever way a session ended (Ctrl+C, end of input, read
\* error, failed registration, request channel closed before the shell
\* request), exactly one exit-status request was sent, after the write that
\* leaves the alternate screen and before the channel was closed.
C18_OneExitStatusAfterTeardown ==
  \A c \in Conns :
    conn[c].phase = "closed" =>
      LET w == conn[c].wire
      IN /\ Cardinality(StatusPlaces(w)) = 1
         /\ \A i \in StatusPlaces(w) :
              /\ \E j \in 1..(i - 1) : w[j] = Write("ESC[?1049l")
              /\ \E k \in (i + 1)..Len(w) : w[k] = Close

\* C19 (as claimed): the exit status a session reports is 1 when its key loop
\* ended by a read error other than end of input, and 0 when it ended by end
\* of input or Ctrl+C: the exit-status requests sent carry that code and no
\* other.
C19_ExitStatusTellsReadError ==
  \A c \in Conns :
    (conn[c].phase = "closed" /\ last.conn = c) =>
      LET w == conn[c].wire
          codes == {w[i].code : i \in StatusPlaces(w)}
      IN /\ last.exit = "err" => codes = {1}
         /\ last.exit = "nil" => codes = {0}

\* C20: whichever way a session ended, the channel got the writes that show
\* the cursor, turn wrapping on and leave the alternate screen, then the
\* farewell line, all before the close, which comes last; nothing is written
\* after the farewell line.
C20_RestoreAndFarewellBeforeClose ==
  \A c \in Conns :
    conn[c].phase \in {"closed", "panicked"} =>
      LET w == conn[c].wire
      IN /\ Len(w) > 0 /\ w[Len(w)] = Close
         /\ \E i \in 1..(Len(w) - 4) :
              /\ w[i] = Write("ESC[?25h")
              /\ w[i + 1] = Write("ESC[?7h")
              /\ w[i + 2] = Write("ESC[?1049l")
              /\ w[i + 3] = Write("Goodbye!")
              /\ \A j \in (i + 4)..Len(w) : w[j].kind # "write"
              /\ \A j \in 1..(Len(w) - 1) : w[j] # Close

\* C20 witness: the session of c1 ended by a read error, so that the channel
\* got more than the deferred calls put on it
C20_Witness ==
  /\ conn["c1"].phase = "closed"
  /\ last.conn = "c1" /\ last.exit = "err"
  /\ Len(conn["c1"].wire) = 7

\* C21 (as claimed): a window-change sent to a started session updates the
\* session's width and height without waiting for a key: at the latest when
\* the session has run a pass of its key loop after it, and when the session
\* has ended, no window-change is left that HandleChannel did not receive.
C21_WindowChangeReachesViewport ==
  \A c \in Conns :
    (\/ conn[c].phase = "closed"
     \/ InSession(c) /\ last.conn = c /\ last.req = NoRequest) =>
      \A i \in 1..Len(conn[c].unread) : conn[c].unread[i].Type # "window-change"

\* a request of a type HandleChannel has no case for
Unrecognized(req) == req.Type \notin {"", "shell", "pty-req", "window-change"}

\* C22 (as claimed): a request of an unrecognized type gets a negative reply
\* exactly when it asked for one, and changes no session state, before the
\* shell request and after it: when the request loop receives one it replies
\* so and changes nothing else, and no session ends with an unrecognized
\* request that asked for a reply still unanswered.
C22_UnrecognizedRefusedIffAsked ==
  [][ \A c \in Conns :
        /\ (last'.conn = c /\ Unrecognized(last'.req)
              /\ Len(conn'[c].unread) < Len(conn[c].unread)) =>
              /\ last'.reply = (IF last'.req.WantReply THEN "false" ELSE "none")
              /\ conn'[c] = [conn[c] EXCEPT !.unread = Tail(@)]
              /\ ui' = ui /\ todoStore' = todoStore /\ userStore' = userStore
        /\ conn'[c].phase = "closed" =>
              \A i \in 1..Len(conn'[c].unread) :
                 ~(Unrecognized(conn'[c].unread[i]) /\ conn'[c].unread[i].WantReply)
    ]_vars

\* the bytes of a stream, its pieces joined
RECURSIVE Joined(_)
Joined(pieces) == IF pieces = <<>> THEN <<>> ELSE Head(pieces) \o Joined(Tail(pieces))

\* C23 (as claimed): the keys decoded from a byte stream do not depend on the
\* pieces the reads get it in: they are the keys decoded from the stream in one
\* piece (ESC '[' 'A' is one ArrowUp and no Printable, however it is cut).
C23_KeysWhateverThePieces ==
  last.stream # <<>> => last.keys = Decode(<<Joined(last.stream)>>)

\* ESC '[' with fewer bytes after it than its sequence takes: none of an arrow
\* key's one, one of the Delete key's two
Truncated == {<<KeyEsc, SeqBracket>>, <<KeyEsc, SeqBracket, SeqDelete>>}

\* the bytes that go on with the sequence s
Continues(s) ==
  IF s = <<KeyEsc, SeqBracket>>
    THEN {SeqUp, SeqDown, SeqRight, SeqLeft, SeqDelete}
    ELSE {SeqTilde}

\* C24 (as claimed): when the stream begins with a piece that is ESC '[' with
\* fewer bytes after it than the sequence takes, and what arrives next does
\* not go on with the sequence, the decoder makes no key of the piece and
\* takes the next byte it reads as the start of a fresh input: the keys of the
\* whole stream are the keys of what arrives after the piece.
C24_TruncatedSequenceDropped ==
  (/\ Len(last.stream) >= 2
   /\ last.stream[1] \in Truncated
   /\ last.stream[2][1] \notin Continues(last.stream[1])) =>
     last.keys = Decode(Tail(last.stream))

\* the session t with every byte of its buffer and of its staged password
\* replaced by b
Masked(t, b) ==
  [t EXCEPT !.inputText = [i \in 1..Len(t.inputText) |-> b],
            !.password = [i \in 1..Len(t.password) |-> b]]

\* C25: what a redraw writes in ModeRegister depends on the buffer and on the
\* staged password by their lengths only (one '*' for each byte): it is what
\* is written for any other bytes of the same lengths, and two sessions of the
\* same user and width at the same step, whose buffers are as long and whose
\* staged passwords are as long, get the same frame.
C25_FrameShowsLengthsOnly ==
  /\ \A c \in Conns :
        Registering(c) =>
          \A b \in {0, KeySpace, SeqTilde} :
            registrationFrame(ui[c]) = registrationFrame(Masked(ui[c], b))
  /\ \A c, d \in Conns :
        (/\ Registering(c) /\ Registering(d)
         /\ ui[c].username = ui[d].username /\ ui[c].width = ui[d].width
         /\ ui[c].registerStep = ui[d].registerStep
         /\ Len(ui[c].inputText) = Len(ui[d].inputText)
         /\ Len(ui[c].password) = Len(ui[d].password)) =>
           registrationFrame(ui[c]) = registrationFrame(ui[d])

\* C25 witness: two sessions confirm passwords that differ, each having
\* typed one byte of the confirmation
C25_Witness ==
  /\ Registering("c1") /\ Registering("c2")
  /\ ui["c1"].registerStep = 1 /\ ui["c2"].registerStep = 1
  /\ ui["c1"].password \in Passwords(LetterA)
  /\ ui["c2"].password \in Passwords(LetterB)
  /\ ui["c1"].inputText \in {<<b>> : b \in LetterA}
  /\ ui["c2"].inputText \in {<<b>> : b \in LetterB}

\* C26 (as claimed): Close returns, and when it has returned the accept loop
\* has stopped and every connection the server accepted is closed and its
\* handler has finished, a connection accepted while Close ran included: once
\* Close waits for the handlers no accepted connection is left open for the
\* wait to depend on the client.
C26_CloseLeavesNothingOpen ==
  /\ server.close = "returned" =>
        /\ server.loop = "done"
        /\ \A k \in NetConns :
              server.net[k] # "none" =>
                server.net[k] = "closed" /\ server.handler[k] = "done"
  /\ server.close = "wait" => \A k \in NetConns : server.net[k] # "open"

\* C27 (as claimed): Enter while a session edits an existing todo issues
\* Update for the id of the todo that was selected when the edit began,
\* whatever another session of the user added or deleted meanwhile: it updates
\* no other todo, and it does not index outside the snapshot (no panic).
C27_EnterUpdatesEditedTodo ==
  [][ \A c \in Conns :
        (/\ InSession(c) /\ last'.conn = c
         /\ ui[c].mode = ModeInput /\ ui[c].inputLabel = LabelEdit
         /\ typed[c].target # 0) =>
          /\ conn'[c].phase # "panicked"
          /\ \A i \in 1..Len(last'.cmds) :
                last'.cmds[i].op = "Update" => last'.cmds[i].id = typed[c].target
    ]_vars

\* C28 (as claimed): the pass that registers the user leaves the session in
\* ModeNormal with the buffer empty, the staged password empty and the step
\* back at 0; the pass that finds the confirmation different empties the
\* staged password; and no session that lists or edits todos holds a password.
C28_RegistrationFieldsCleared ==
  \A c \in Conns :
    /\ (InSession(c) /\ last.conn = c /\ last.msg = "Registration successful!") =>
          /\ ui[c].mode = ModeNormal
          /\ ui[c].inputText = <<>> /\ ui[c].password = <<>>
          /\ ui[c].registerStep = 0
    /\ (InSession(c) /\ last.conn = c /\ last.msg = "Passwords do not match.") =>
          ui[c].password = <<>>
    /\ Listing(c) => ui[c].password = <<>>

\* C30: at the second step of registration, Enter on a buffer that differs
\* from the staged password registers nothing: the pass issues no Register,
\* leaves the user store as it is, empties the buffer and goes back to the
\* first step, the session staying in ModeRegister.
C30_MismatchStartsOver ==
  \A c \in Conns :
    (Registering(c) /\ ui[c].registerStep = 1
       /\ ui[c].inputText # ui[c].password) =>
      \A saveOk \in BOOLEAN : \A b \in LetterA :
        \E r \in {handleInput(ui[c], todoStore, userStore, EnterThen(b), saveOk)} :
          /\ r.ok /\ r.exit = "none"
          /\ r.cmds = <<>> /\ r.us = userStore
          /\ r.t.inputText = <<>> /\ r.t.registerStep = 0
          /\ r.t.mode = ModeRegister /\ r.t.isRegistering

\* C30 witness: a confirmation that differed from the staged password took
\* the session back to the first step, nobody being registered
C30_Witness ==
  /\ Registering("c1") /\ last.conn = "c1"
  /\ last.msg = "Passwords do not match." /\ last.cmds = <<>>
  /\ ui["c1"].registerStep = 0 /\ ui["c1"].inputText = <<>>
  /\ Len(ui["c1"].password) >= MinPasswordLen
  /\ userStore["alice"] = NoUser

\* the session after the key loop has taken the bytes of a key one by one,
\* as it does in ModeRegister, where every pass reads a single byte
RECURSIVE Keyed(_, _, _, _)
Keyed(t, st, us, bytes) ==
  IF bytes = <<>> THEN t
  ELSE Keyed(handleInput(t, st, us, Key(Head(bytes)), TRUE).t, st, us, Tail(bytes))

\* what a terminal sends for Tab, for the four arrows and for Delete
OtherKeys ==
  {<<KeyTab>>, <<KeyEsc, SeqBracket, SeqDelete, SeqTilde>>}
    \cup {<<KeyEsc, SeqBracket, code>> : code \in {SeqUp, SeqDown, SeqRight, SeqLeft}}

\* C29: in ModeRegister a Tab, an arrow key or Delete leaves the buffer, the
\* step and the staged password as they were: nothing is appended to the
\* password being typed.
C29_OtherKeysIgnored ==
  \A c \in Conns :
    Registering(c) =>
      \A k \in OtherKeys :
        \E u \in {Keyed(ui[c], todoStore, userStore, k)} :
          /\ u.inputText = ui[c].inputText
          /\ u.registerStep = ui[c].registerStep
          /\ u.password = ui[c].password

\* the stream that arrives in pieces, without its first n bytes
RECURSIVE Drop(_, _)
Drop(pieces, n) ==
  IF n = 0 \/ pieces = <<>> THEN pieces ELSE Drop(Take(pieces, 1).rest, n - 1)

\* C31 (as claimed): of a stream that begins with ESC and a byte that is not
\* '[', the decoder drops these two bytes and no more, making no key of them:
\* the keys of the stream are the keys of what follows the two bytes (a
\* printable byte after them is a Printable key).
C31_EscapeDropsTwoBytes ==
  (/\ Len(Joined(last.stream)) >= 2
   /\ Joined(last.stream)[1] = KeyEsc
   /\ Joined(last.stream)[2] # SeqBracket) =>
     last.keys = Decode(Drop(last.stream, 2))

\* the pass just made issued a Delete
Deleted == last'.cmds # <<>> /\ last'.cmds[1].op = "Delete"

\* C34 (as claimed): after a Delete key in ModeNormal on a snapshot that is
\* not empty, selected is max(0, n - 2), n being the length of the snapshot
\* after the deletion.
C34_SelectedAfterDelete ==
  [][\A c \in Conns :
       (/\ InSession(c) /\ ui[c].mode = ModeNormal /\ Len(ui[c].todos) > 0
        /\ last'.conn = c /\ Deleted /\ conn'[c].phase = "session") =>
          ui'[c].selected = Max(0, Len(ui'[c].todos) - 2)
    ]_vars

\* ESC, then '[' '3' read into seq, then the byte b read into extraByte
DeleteWith(b) == <<Bytes(<<KeyEsc>>), Bytes(<<SeqBracket, SeqDelete>>), Bytes(<<b>>)>>

\* bytes other than '~': control bytes, ESC, bytes of escape sequences, letters
NotTilde ==
  {KeyCtrlC, KeyTab, KeyEnter, KeyEsc, KeySpace, KeyBackspace, SeqBracket, SeqUp,
   SeqDelete} \cup LetterA

Blank(text) == \A i \in 1..Len(text) : IsSpace(text[i])

\* C33: Enter in ModeInput on a buffer that is empty or whitespace only,
\* whether for a new todo or for the edit of one, issues no store command and
\* leaves the store and the list as they were; the session is back in
\* ModeNormal with an empty buffer, whether or not a save would succeed.
C33_BlankEnterIssuesNothing ==
  \A c \in Conns :
    (Listing(c) /\ ui[c].mode = ModeInput /\ Blank(ui[c].inputText)) =>
      \A saveOk \in BOOLEAN :
        \E r \in {handleInput(ui[c], todoStore, userStore, Key(KeyEnter), saveOk)} :
          /\ r.ok /\ r.exit = "none"
          /\ r.cmds = <<>> /\ r.st = todoStore
          /\ r.t.todos = ui[c].todos
          /\ r.t.mode = ModeNormal
          /\ r.t.inputText = <<>> /\ r.t.cursorPos = 0

\* C33 witness: Enter was pressed on a new todo typed as whitespace only, and
\* the session is back in the list with nothing issued
C33_Witness ==
  /\ InSession("c1") /\ last.conn = "c1" /\ last.cmds = <<>>
  /\ typed["c1"].stage = "entered"
  /\ typed["c1"].text # <<>> /\ Blank(typed["c1"].text)
  /\ ui["c1"].mode = ModeNormal /\ ui["c1"].inputText = <<>>

\* the reference line editor: the line and the cursor after the key e
LineEdit(text, cur, e) ==
  IF e.key \in {"Printable", "Space"} THEN
    [text |-> SubSeq(text, 1, cur)
                \o <<IF e.key = "Space" THEN KeySpace ELSE e.byte>>
                \o SubSeq(text, cur + 1, Len(text)),
     cur |-> cur + 1]
  ELSE IF e.key = "Backspace" /\ cur > 0 THEN
    [text |-> SubSeq(text, 1, cur - 1) \o SubSeq(text, cur + 1, Len(text)),
     cur |-> cur - 1]
  ELSE IF e.key = "Delete" /\ cur < Len(text) THEN
    [text |-> SubSeq(text, 1, cur) \o SubSeq(text, cur + 2, Len(text)), cur |-> cur]
  ELSE IF e.key = "ArrowLeft" /\ cur > 0 THEN [text |-> text, cur |-> cur - 1]
  ELSE IF e.key = "ArrowRight" /\ cur < Len(text) THEN [text |-> text, cur |-> cur + 1]
  ELSE [text |-> text, cur |-> cur]

\* the keys that edit the line, and the two arrows that do not
EditKeys ==
  {Key(b) : b \in LetterA \cup LetterB \cup {KeySpace, SeqTilde, KeyBackspace}}
    \cup ArrowKeys \cup {DeleteSeq}

C36_InterruptEndsKeyLoop ==
  \A c \in Conns :
    /\ InSession(c) =>
         \A saveOk \in BOOLEAN :
           \E r \in {handleInput(ui[c], todoStore, userStore, Key(KeyCtrlC), saveOk)} :
             /\ r.ok /\ r.need = 1 /\ r.exit = "nil"
             /\ r.cmds = <<>> /\ r.st = todoStore /\ r.us = userStore
    /\ conn[c].phase = "closed" =>
         /\ ui[c] = NoUI
         /\ \A in \in AllInputs : ~ENABLED HandleInput(c, in, TRUE)

\* C36 witness: the key loop of a session that had issued store commands has
\* returned nil, and the session is closed
C36_Witness ==
  /\ conn["c1"].phase = "closed" /\ last.conn = "c1" /\ last.exit = "nil"
  /\ last.cmds = <<>>
  /\ Len(issued["alice"]) >= 2

\* what the store holds in memory for a user, as a List and the next Add see
\* it: the user's todos with their fields, and NextID
InMemory(st, username) == FileOf(List(st, username).st, username)

\* C37 (as claimed): a store mutation whose save fails leaves what the store
\* holds in memory for the user as it was: List returns the same todos with
\* the same fields, and the next Add gets the id the failed one would have got.
C37_FailedSaveChangesNothing ==
  \A u \in Users :
    /\ \A text \in StoreTexts :
         \E r \in {Add(todoStore, u, text, FALSE)} :
           r.err # "nil" => InMemory(r.st, u) = InMemory(todoStore, u)
    /\ \A id \in TodoIDs :
         /\ \A text \in StoreTexts :
              \E r \in {Update(todoStore, u, id, text, FALSE)} :
                r.err # "nil" => InMemory(r.st, u) = InMemory(todoStore, u)
         /\ \E r \in {Delete(todoStore, u, id, FALSE)} :
              r.err # "nil" => InMemory(r.st, u) = InMemory(todoStore, u)
         /\ \E r \in {ToggleComplete(todoStore, u, id, FALSE)} :
              r.err # "nil" => InMemory(r.st, u) = InMemory(todoStore, u)

\* the step is an Add for user u by a store that has not loaded u's file,
\* which exists
AddBeforeLoad(u) ==
  /\ todoStore.userTodos[u] = NoUserTodos
  /\ todoStore.disk[u] # NoFile
  /\ last'.cmds # <<>>
  /\ last'.cmds[1].op = "Add" /\ last'.cmds[1].user = u

\* C38 (as claimed): an Add that is the first call for a user after a restart
\* keeps every todo of the user's file, in memory and in the file, with its
\* fields, and returns an id greater than every id in the file.
C38_AddKeepsPersisted ==
  [][\A u \in Users :
       AddBeforeLoad(u) =>
         \A id \in DOMAIN todoStore.disk[u].Todos :
           /\ id \in todoStore'.userTodos[u].Todos
           /\ id \in DOMAIN todoStore'.disk[u].Todos
           /\ todoStore'.disk[u].Todos[id] = todoStore.disk[u].Todos[id]
           /\ last'.cmds[1].id > id
    ]_vars

\* the Text and Completed a session reads in the todos of the snapshot it holds
Held(c, st) ==
  [i \in 1..Len(ui[c].todos) |->
     [Text |-> st.heap[ui[c].username][ui[c].todos[i]].Text,
      Completed |-> st.heap[ui[c].username][ui[c].todos[i]].Completed]]

\* C39 (as claimed): the snapshot a session holds is a value of its own: a
\* pass of another session of the same user, whatever store call it makes,
\* changes neither the Text nor the Completed the session reads in the todos
\* of the snapshot.
C39_SnapshotIsAValue ==
  [][\A c \in Conns :
       (/\ InSession(c) /\ ui[c].mode # ModeRegister
        /\ last'.conn # c /\ ui'[c] = ui[c]
        /\ last'.cmds # <<>>
        /\ last'.cmds[1].op \in {"Update", "ToggleComplete"}
        /\ last'.cmds[1].id \in Range(ui[c].todos)) =>
          Held(c, todoStore') = Held(c, todoStore)
    ]_vars

====
